---- MODULE Spec2Model ----
(***************************************************************************)
(* Model of the routers of muza-back.  src/app/routers/songs.py: the upload *)
(* directory, the songs table, the duration probe, the upload, update and  *)
(* delete handlers, the range-request streamer (stream_song + the          *)
(* stream_file generator) and the likes.  albums.py, playlists.py and      *)
(* users.py: the album, playlist and follow handlers.                      *)
(*                                                                         *)
(* Bytes are not enumerated.  A file is [data, size, audio]: `data` names   *)
(* the byte string that was uploaded, so the byte at offset i of a file is *)
(* the pair (data, i).  A chunk read from a file is the span               *)
(* [data, off, len]; a response body is the sequence of yielded chunks.    *)
(* Strings that the code parses (the range value) are sequences of         *)
(* one-character strings and are parsed character by character; they are   *)
(* written over the digits, the letters, the blank and + - =.              *)
(***************************************************************************)
EXTENDS Integers, Sequences, FiniteSets, TLC

\* ------------------------------------------------------------------ bounds
MaxSongs == 2
MaxTime == 2
MaxCovers == 1
MaxStreams == 2
MaxAlbums == 2
MaxPlaylists == 1
MaxLikes == 2

\* ------------------------------------------------------- program constants
CHUNK_SIZE == 1024 * 1024
MAX_AUDIO_SIZE == 50 * 1024 * 1024
MAX_COVER_SIZE == 5 * 1024 * 1024
MIN_AUDIO_SIZE == 1000

NoSong == [absent |-> TRUE]
NoFile == [absent |-> TRUE]

Min(a, b) == IF a <= b THEN a ELSE b

\* =================================================================
\* Python string operations used by stream_song, on character sequences
\* =================================================================
BytesEq == <<"b", "y", "t", "e", "s", "=">>

IsPrefix(p, s) == Len(p) <= Len(s) /\ SubSeq(s, 1, Len(p)) = p

\* str.replace('bytes=', ''): every non-overlapping occurrence, left to right
RECURSIVE StrRemove(_, _)
StrRemove(s, pat) ==
    IF Len(s) < Len(pat) THEN s
    ELSE IF IsPrefix(pat, s)
         THEN StrRemove(SubSeq(s, Len(pat) + 1, Len(s)), pat)
         ELSE <<Head(s)>> \o StrRemove(Tail(s), pat)

\* str.split('-'): always at least one part, empty parts are kept
RECURSIVE StrSplit(_, _)
StrSplit(s, sep) ==
    IF \A i \in 1..Len(s) : s[i] # sep THEN <<s>>
    ELSE LET i == CHOOSE k \in 1..Len(s) :
                      s[k] = sep /\ \A j \in 1..(k - 1) : s[j] # sep
         IN <<SubSeq(s, 1, i - 1)>> \o StrSplit(SubSeq(s, i + 1, Len(s)), sep)

\* str.strip() as applied by int(): leading and trailing blanks
RECURSIVE StrStrip(_)
StrStrip(s) ==
    IF s = <<>> THEN s
    ELSE IF Head(s) = " " THEN StrStrip(Tail(s))
    ELSE IF s[Len(s)] = " " THEN StrStrip(SubSeq(s, 1, Len(s) - 1))
    ELSE s

DigitChars == {"0", "1", "2", "3", "4", "5", "6", "7", "8", "9"}

DigitVal(c) ==
    CASE c = "0" -> 0 [] c = "1" -> 1 [] c = "2" -> 2 [] c = "3" -> 3
      [] c = "4" -> 4 [] c = "5" -> 5 [] c = "6" -> 6 [] c = "7" -> 7
      [] c = "8" -> 8 [] c = "9" -> 9

RECURSIVE DigitsVal(_)
DigitsVal(ds) ==
    IF ds = <<>> THEN 0
    ELSE 10 * DigitsVal(SubSeq(ds, 1, Len(ds) - 1)) + DigitVal(ds[Len(ds)])

\* the literal without its sign
Unsigned(t) == IF t # <<>> /\ Head(t) \in {"+", "-"} THEN Tail(t) ELSE t

\* int(s) succeeds: optional blanks, optional sign, one or more digits
IsIntLiteral(s) ==
    LET u == Unsigned(StrStrip(s))
    IN u # <<>> /\ \A i \in 1..Len(u) : u[i] \in DigitChars

\* the value of int(s) when IsIntLiteral(s)
IntValue(s) ==
    LET t == StrStrip(s)
        v == DigitsVal(Unsigned(t))
    IN IF Head(t) = "-" THEN 0 - v ELSE v

\* =================================================================
\* The request inputs that are enumerated
\* =================================================================
\* user 1 is an artist, user 2 a listener (models.User.is_artist); the song
\* requests come from these two
Users == 1..2

\* the accounts of the album, playlist, like and follow requests: user 3 is
\* one more artist
Members == 1..3

\* the usernames and emails requests name: those the three accounts
\* registered with, and one of each that nobody has
Usernames == <<"ann", "bob", "cat", "dan">>
Emails == <<"ann@x", "bob@x", "cat@x", "dan@x">>

\* the upload filename, already split as os.path.splitext splits it
Filenames == {[base |-> "a", ext |-> ".mp3"]}

\* UPLOAD_DIR/<timestamp>_<filename>: the paths save_upload_file can build
Paths == [ts : 1..MaxTime, name : Filenames]

\* The byte strings clients upload.  `data` names the byte string, `size` is
\* its length and `audio` tells whether its first bytes are one of the
\* headers validate_audio_file knows.
Blob(data, size, audio) == [data |-> data, size |-> size, audio |-> audio]
Empty == Blob("empty", 0, FALSE)
Tiny == Blob("tiny", 50, TRUE)
Text == Blob("text", 2 * MIN_AUDIO_SIZE, FALSE)
Edge == Blob("edge", CHUNK_SIZE + 1, TRUE)
Track == Blob("track", 10 * CHUNK_SIZE, TRUE)
Huge == Blob("huge", MAX_AUDIO_SIZE + 1, TRUE)

\* JSON documents as json.loads returns them, or text that is no JSON.  A
\* dict is its key set and its values; a list stands for a non-empty one.
NotJson == [t |-> "invalid"]
JNull == [t |-> "null"]
JList == [t |-> "list"]
JStr(s) == [t |-> "str", s |-> s]
JDict(keys, val) == [t |-> "dict", keys |-> keys, val |-> val]
JEmpty == JDict({}, <<>>)
JFormat(v) == JDict({"format"}, [k \in {"format"} |-> v])
JDuration(v) == JFormat(JDict({"duration"}, [k \in {"duration"} |-> v]))

\* What running ffprobe on a stored file comes to: the exception
\* subprocess.run raises, or the completed process
ProbeRaises(exc) == [run |-> exc, returncode |-> 0, stdout |-> NotJson]
Completed(returncode, stdout) ==
    [run |-> "completed", returncode |-> returncode, stdout |-> stdout]

\* the machine has no ffprobe
NoTool == ProbeRaises("FileNotFoundError")

\* an uploaded audio part: its declared content type and its bytes; `io`
\* tells whether the disk accepts the file, `probe` what ffprobe will come
\* to on the stored file
Upload(filename, content_type, blob, io) ==
    [filename |-> filename, content_type |-> content_type,
     size |-> blob.size, blob |-> blob, io |-> io, probe |-> NoTool]

\* the same upload on a machine where ffprobe comes to p
Probed(up, p) == [up EXCEPT !.probe = p]

CreateUploads ==
    {Upload(f, "audio/mpeg", b, "ok") : f \in Filenames,
                                        b \in {Empty, Tiny, Text, Edge, Track, Huge}}
      \cup {Upload(f, "text/plain", Text, "ok") : f \in Filenames}
      \cup {Upload(f, "audio/mpeg", Track, "error") : f \in Filenames}

UpdateUploads ==
    {Upload(f, "audio/mpeg", b, "ok") : f \in Filenames,
                                        b \in {Empty, Tiny, Edge, Track}}
      \cup {Upload(f, "text/plain", Text, "ok") : f \in Filenames}
      \cup {Upload(f, "audio/mpeg", Track, "error") : f \in Filenames}

NoUpload == [absent |-> TRUE]

\* the duration texts ffprobe prints
NotAvailable == <<"N", "/", "A">>
Seconds183 == <<"1", "8", "3", ".", "4", "7">>
SubSecond == <<"0", ".", "9">>
Negative == <<"-", "3", ".", "5">>

\* the runs of ffprobe that give no duration: the tool missing, timing out,
\* failing to start, exiting non-zero, and output without a parsable
\* duration
UnknownDuration ==
    { NoTool, ProbeRaises("TimeoutExpired"), ProbeRaises("PermissionError"),
      Completed(1, NotJson), Completed(1, JDuration(JStr(Seconds183))),
      Completed(0, NotJson), Completed(0, JList), Completed(0, JEmpty),
      Completed(0, JFormat(JEmpty)), Completed(0, JFormat(JStr(<<"x">>))),
      Completed(0, JDuration(JNull)), Completed(0, JDuration(JStr(<<>>))),
      Completed(0, JDuration(JList)),
      Completed(0, JDuration(JStr(NotAvailable))),
      Completed(0, JDuration(JStr(<<"n", "a", "n">>))),
      Completed(0, JDuration(JStr(<<"i", "n", "f">>))),
      Completed(0, JDuration(JStr(<<".">>))) }

\* the runs that print a duration
KnownDuration ==
    { Completed(0, JDuration(JStr(Seconds183))),
      Completed(0, JDuration(JStr(SubSecond))),
      Completed(0, JDuration(JStr(Negative))) }

ProbeOutcomes == UnknownDuration \cup KnownDuration

\* the `range` parameter of stream_song: absent, or a string
NoRange == [some |-> FALSE]
Str(s) == [some |-> TRUE, v |-> s]

DigitChar(d) ==
    CASE d = 0 -> "0" [] d = 1 -> "1" [] d = 2 -> "2" [] d = 3 -> "3"
      [] d = 4 -> "4" [] d = 5 -> "5" [] d = 6 -> "6" [] d = 7 -> "7"
      [] d = 8 -> "8" [] d = 9 -> "9"

\* the decimal numeral of n >= 0, as a client writes it
RECURSIVE Dec(_)
Dec(n) == IF n < 10 THEN <<DigitChar(n)>>
          ELSE Dec(n \div 10) \o <<DigitChar(n % 10)>>

\* 'bytes=<a>-<b>' and 'bytes=<a>-'
ClosedRange(a, b) == Str(BytesEq \o Dec(a) \o <<"-">> \o Dec(b))
OpenRange(a) == Str(BytesEq \o Dec(a) \o <<"-">>)

\* the offsets requests name
ClosedPairs ==
    { <<0, 99>>, <<0, 0>>, <<40, 49>>, <<CHUNK_SIZE - 1, CHUNK_SIZE>>,
      <<5 * CHUNK_SIZE, 6 * CHUNK_SIZE - 1>>, <<50, 3 * CHUNK_SIZE + 72>>,
      <<99, 50>>, <<0, 20000000>> }
OpenStarts == {0, 100, 20000000}

WellFormedRanges ==
    {ClosedRange(p[1], p[2]) : p \in ClosedPairs}
      \cup {OpenRange(a) : a \in OpenStarts}

OddRanges ==
    { Str(<<>>),
      Str(BytesEq \o <<" ", "7", "-", "+", "9">>),
      Str(<<"4", "0", "-", "6", "0">>),
      Str(BytesEq \o <<"a", "b", "c", "-", "d", "e", "f">>),
      Str(BytesEq \o <<"-", "9", "9">>),
      Str(BytesEq \o <<"0", "-", "x">>),
      Str(BytesEq \o <<"1", "0", "0">>),
      Str(<<"a", "b", "c">>) }

RangeValues == {NoRange} \cup WellFormedRanges \cup OddRanges

\* =================================================================
\* State
\* =================================================================
VARIABLES
    songs,    \* the songs table: id -> row, or NoSong
    fs,       \* the upload directory: path -> file, or NoFile
    covers,   \* the cover images on disk (uuid-named)
    now,      \* datetime.now() truncated to the second
    resp,     \* the response of the last handler that returned
    gen,      \* the stream_file generator of the last streaming response
    streams,  \* the streaming responses in flight: slot -> response, generator
    albums,   \* the albums table: id -> row, or NoAlbum
    playlists,    \* the playlists table with song_playlist: id -> row
    liked_songs,  \* the user_liked_songs table: <<user_id, song_id>>
    following,    \* the user_follows table: <<follower_id, following_id>>
    users,        \* the users table: id -> row
    sessions      \* the database session of each user's request in flight

vars == <<songs, fs, covers, now, resp, gen, streams, albums, playlists,
          liked_songs, following, users, sessions>>

\* the tables of albums.py, playlists.py and users.py, and the sessions
catalog == <<albums, playlists, following, users, sessions>>

\* no request of the user is in flight
NoSession == [op |-> "none"]

\* models.User.is_artist of the account u
is_artist(u) == users[u].is_artist

\* Python's None, for an id column
None == 0
NoAlbum == [absent |-> TRUE]
NoPlaylist == [absent |-> TRUE]

NoGen == [state |-> "none"]
NoStream == [resp |-> [op |-> "none"], gen |-> NoGen]

SongIds == 1..MaxSongs
AlbumIds == 1..MaxAlbums
PlaylistIds == 1..MaxPlaylists
StreamSlots == 1..MaxStreams

\* faulty variant: the query without its filter, first() of the whole table
SongById_NoFilter(tbl, song_id) ==
    IF \A i \in DOMAIN tbl : tbl[i] = NoSong THEN NoSong
    ELSE tbl[CHOOSE i \in DOMAIN tbl :
                 tbl[i] # NoSong /\ \A j \in DOMAIN tbl : j < i => tbl[j] = NoSong]

\* db.query(models.Song).filter(models.Song.id == song_id).first()
SongById(tbl, song_id) ==
    IF song_id \in DOMAIN tbl THEN tbl[song_id] ELSE NoSong

\* os.path.exists(path)
exists(f, path) == f[path] # NoFile

\* os.path.getsize(path), for an existing path
getsize(f, path) == f[path].size

\* =================================================================
\* The filesystem calls of the handlers, on a directory f
\* =================================================================
\* open(path, 'wb'): creates the file, or truncates the existing one in place
open_wb(f, path) == [f EXCEPT ![path] = Empty]

\* the copy loop of save_upload_file: every chunk of the upload is written
write_all(f, path, up) == [f EXCEPT ![path] = up.blob]

\* faulty variant: the file is left where it is
remove_Nothing(f, path) == f

\* os.remove(path), for an existing path
remove(f, path) == [f EXCEPT ![path] = NoFile]

\* faulty variant: a read that does not stop at end-of-file
read_PastEof(file, pos, n) == [data |-> file.data, off |-> pos, len |-> n]

\* file.read(n) with the cursor at pos: the bytes up to end-of-file
read(file, pos, n) ==
    [data |-> file.data, off |-> pos,
     len |-> IF pos >= file.size THEN 0 ELSE Min(n, file.size - pos)]

\* =================================================================
\* try_ffprobe_duration
\* =================================================================
\* dict.get(key, default), for a dict d
Get(d, key, default) == IF key \in d.keys THEN d.val[key] ELSE default

\* the truth value Python gives a JSON value
Truthy(v) ==
    CASE v.t = "null" -> FALSE
      [] v.t = "str" -> v.s # <<>>
      [] v.t = "dict" -> v.keys # {}
      [] OTHER -> TRUE

\* a decimal numeral: digits with at most one point and at least one digit
IsDecimal(u) ==
    LET Decimal(parts) ==
            /\ Len(parts) <= 2
            /\ \A i \in 1..Len(parts) :
                   \A j \in 1..Len(parts[i]) : parts[i][j] \in DigitChars
            /\ \E i \in 1..Len(parts) : parts[i] # <<>>
    IN Decimal(StrSplit(u, "."))

\* what float(s) is for a string over the digits, the point, the sign, the
\* blank and letters: a finite number, nan, inf, or a ValueError
FloatKind(s) ==
    LET Kind(u) ==
            IF u = <<"n", "a", "n">> THEN "nan"
            ELSE IF u = <<"i", "n", "f">> THEN "inf"
            ELSE IF IsDecimal(u) THEN "finite"
            ELSE "ValueError"
    IN Kind(Unsigned(StrStrip(s)))

\* int(float(s)) for a finite float(s): the fraction is cut off
IntOfFloat(s) ==
    LET Signed(t, v) == IF Head(t) = "-" THEN 0 - v ELSE v
        Whole(t) == Signed(t, DigitsVal(StrSplit(Unsigned(t), ".")[1]))
    IN Whole(StrStrip(s))

Raise(exc) == [exc |-> exc, returns |-> FALSE, value |-> 0]
Return(v) == [exc |-> "none", returns |-> TRUE, value |-> v]
FallThrough == [exc |-> "none", returns |-> FALSE, value |-> 0]

\* int(float(duration_str)) and the return
ParseDuration(duration_str) ==
    LET Cut(s, kind) ==
            CASE kind = "ValueError" -> Raise("ValueError")
              [] kind = "nan" -> Raise("ValueError")
              [] kind = "inf" -> Raise("OverflowError")
              [] OTHER -> Return(IntOfFloat(s))
    IN IF duration_str.t # "str" THEN Raise("TypeError")
       ELSE Cut(duration_str.s, FloatKind(duration_str.s))

\* the body of the try block, for what the subprocess comes to: the
\* exception it raises, the value it returns, or neither
ProbeBody(p) ==
    LET OfDuration(duration_str) ==
            IF Truthy(duration_str) THEN ParseDuration(duration_str)
            ELSE FallThrough
        OfFormat(format) ==
            IF format.t # "dict" THEN Raise("AttributeError")
            ELSE OfDuration(Get(format, "duration", JNull))
    IN IF p.run # "completed" THEN Raise(p.run)
       ELSE IF p.returncode # 0 THEN FallThrough
       ELSE IF p.stdout.t = "invalid" THEN Raise("JSONDecodeError")
       ELSE IF p.stdout.t # "dict" THEN Raise("AttributeError")
       ELSE OfFormat(Get(p.stdout, "format", JEmpty))

\* faulty variant: only the two named except clauses
Caught_NamedOnly(exc) == exc \in {"TimeoutExpired", "FileNotFoundError"}

\* the except clauses: TimeoutExpired, FileNotFoundError, Exception
Caught(exc) ==
    \/ exc = "TimeoutExpired"
    \/ exc = "FileNotFoundError"
    \/ exc # "none"

\* try_ffprobe_duration(file_path): the exception that leaves it, and the
\* value it returns
try_ffprobe_duration(p) ==
    LET Handled(b) ==
            IF b.exc # "none" /\ ~Caught(b.exc)
            THEN [outcome |-> p, raised |-> b.exc, value |-> 0]
            ELSE IF b.returns
            THEN [outcome |-> p, raised |-> "none", value |-> b.value]
            ELSE [outcome |-> p, raised |-> "none", value |-> 0]
    IN Handled(ProbeBody(p))

\* no probe was run
NoProbe == [raised |-> "none", value |-> 0]

\* timestamp_filename under UPLOAD_DIR
UploadPath(t, filename) == [ts |-> t, name |-> filename]

\* save_upload_file(upload_file) at second t
save_upload_file(f, up, t) ==
    LET file_path == UploadPath(t, up.filename)
        saved == write_all(open_wb(f, file_path), file_path, up)
        AfterProbe(duration) ==
            IF duration.raised # "none"
            THEN [disk |-> saved, status |-> 500,
                  detail |-> "Internal Server Error",
                  file_path |-> file_path, duration |-> 0, probe |-> duration]
            ELSE [disk |-> saved, status |-> 200, detail |-> "",
                  file_path |-> file_path, duration |-> duration.value,
                  probe |-> duration]
    IN IF up.io = "error"
       THEN [disk |-> f, status |-> 500, detail |-> "Failed to save file",
             file_path |-> file_path, duration |-> 0, probe |-> NoProbe]
       ELSE IF ~exists(saved, file_path) \/ getsize(saved, file_path) = 0
       THEN [disk |-> saved, status |-> 500,
             detail |-> "File was not saved correctly",
             file_path |-> file_path, duration |-> 0, probe |-> NoProbe]
       ELSE AfterProbe(try_ffprobe_duration(up.probe))

\* validate_audio_file(file_path)
validate_audio_file(f, file_path) ==
    IF ~exists(f, file_path) THEN FALSE
    ELSE IF getsize(f, file_path) < MIN_AUDIO_SIZE THEN FALSE
    ELSE f[file_path].audio

\* the uuid4 name save_image_file picks: one no cover on disk has
NewCover == CHOOSE c \in 1..(MaxCovers + 1) :
                c \notin covers /\ \A b \in 1..(c - 1) : b \in covers

\* the id the database gives the next songs row: one more than the highest
\* id in the table
NextSongId ==
    IF \A i \in SongIds : songs[i] = NoSong THEN 1
    ELSE 1 + CHOOSE i \in SongIds :
                 songs[i] # NoSong /\ \A j \in SongIds : j > i => songs[j] = NoSong

startswith(content_type, prefix) ==
    \/ prefix = "audio/" /\ content_type \in {"audio/mpeg"}
    \/ prefix = "image/" /\ content_type \in {"image/png"}

NoHeaders == [absent |-> TRUE]
Reply(op, song_id, status, detail) ==
    [op |-> op, song_id |-> song_id, range |-> NoRange, status |-> status,
     detail |-> detail, headers |-> NoHeaders, probe |-> NoProbe]

\* =================================================================
\* create_song, update_song, delete_song
\* =================================================================
\* what create_song does for an authenticated user: the response and the
\* disk, covers and table it leaves
create_song(u, file, cover, album_id) ==
    LET has_cover == cover # NoUpload
        is_image == has_cover /\ startswith(cover.content_type, "image/")
        cover_path == IF is_image THEN NewCover ELSE 0
        covers1 == IF is_image THEN covers \cup {NewCover} ELSE covers
        sv == save_upload_file(fs, file, now)
        same == [status |-> 0, detail |-> "", disk |-> fs, covers |-> covers,
                 songs |-> songs, new_id |-> 0, probe |-> NoProbe]
    IN IF ~is_artist(u)
       THEN [same EXCEPT !.status = 403,
                         !.detail = "Only artists can create songs"]
       ELSE IF ~startswith(file.content_type, "audio/")
       THEN [same EXCEPT !.status = 400,
                         !.detail = "File must be an audio file"]
       ELSE IF has_cover /\ ~is_image
       THEN [same EXCEPT !.status = 400,
                         !.detail = "Cover must be an image file"]
       ELSE IF file.size # 0 /\ file.size > MAX_AUDIO_SIZE
       THEN [same EXCEPT !.status = 400, !.covers = covers1,
                         !.detail = "File too large (max 50MB)"]
       ELSE IF has_cover /\ cover.size # 0 /\ cover.size > MAX_COVER_SIZE
       THEN [same EXCEPT !.status = 400, !.covers = covers1,
                         !.detail = "Cover image too large (max 5MB)"]
       ELSE IF sv.status # 200
       THEN [same EXCEPT !.status = sv.status, !.detail = sv.detail,
                         !.covers = covers1, !.disk = sv.disk,
                         !.probe = sv.probe]
       ELSE IF ~validate_audio_file(sv.disk, sv.file_path)
       THEN [same EXCEPT !.status = 400, !.covers = covers1,
                         !.detail = "Invalid audio file format",
                         !.disk = remove(sv.disk, sv.file_path),
                         !.probe = sv.probe]
       ELSE [status |-> 200, detail |-> "", disk |-> sv.disk,
             covers |-> covers1, new_id |-> NextSongId, probe |-> sv.probe,
             songs |-> [i \in SongIds |->
                          IF i = NextSongId
                          THEN [file_path |-> sv.file_path, creator_id |-> u,
                                cover_image |-> cover_path,
                                duration |-> sv.duration,
                                album_id |-> album_id, like_count |-> 0]
                          ELSE songs[i]]]

\* the part of an outcome that the bounds of the model admit
WithinBounds(r) ==
    /\ r.covers \subseteq 1..MaxCovers
    /\ r.new_id <= MaxSongs

CreateSong(u, file, cover, album_id) ==
    LET r == create_song(u, file, cover, album_id)
    IN /\ WithinBounds(r)
       /\ songs' = r.songs
       /\ fs' = r.disk
       /\ covers' = r.covers
       /\ resp' = [Reply("create_song", r.new_id, r.status, r.detail)
                       EXCEPT !.probe = r.probe]
       /\ UNCHANGED <<now, gen, streams, catalog, liked_songs>>

\* update_song for the file and cover parts of the form
update_song(song_id, u, file, cover, album_id) ==
    LET db_song == SongById(songs, song_id)
        same == [status |-> 0, detail |-> "", disk |-> fs, covers |-> covers,
                 songs |-> songs, new_id |-> 0, probe |-> NoProbe]
        \* "Delete old file"
        d1 == IF file # NoUpload /\ exists(fs, db_song.file_path)
              THEN remove(fs, db_song.file_path) ELSE fs
        \* "Save new file"
        sv == save_upload_file(d1, file, now)
        \* "Update basic fields"
        song0 == IF album_id # None
                 THEN [db_song EXCEPT !.album_id = album_id]
                 ELSE db_song
        song1 == IF file # NoUpload
                 THEN [song0 EXCEPT !.file_path = sv.file_path,
                                    !.duration = sv.duration]
                 ELSE song0
        disk1 == IF file # NoUpload THEN sv.disk ELSE fs
        has_cover == cover # NoUpload
        old_cover_path == db_song.cover_image
        song2 == IF has_cover THEN [song1 EXCEPT !.cover_image = NewCover]
                 ELSE song1
        covers1 == IF has_cover
                   THEN (covers \cup {NewCover}) \ {old_cover_path}
                   ELSE covers
    IN IF db_song = NoSong
       THEN [same EXCEPT !.status = 404, !.detail = "Song not found"]
       ELSE IF db_song.creator_id # u
       THEN [same EXCEPT !.status = 403,
                         !.detail = "Not authorized to update this song"]
       ELSE IF file # NoUpload /\ ~startswith(file.content_type, "audio/")
       THEN [same EXCEPT !.status = 400,
                         !.detail = "File must be an audio file"]
       ELSE IF file # NoUpload /\ sv.status # 200
       THEN [same EXCEPT !.status = sv.status, !.detail = sv.detail,
                         !.disk = sv.disk, !.probe = sv.probe]
       ELSE [status |-> 200, detail |-> "", disk |-> disk1,
             covers |-> covers1, new_id |-> 0,
             probe |-> IF file # NoUpload THEN sv.probe ELSE NoProbe,
             songs |-> [songs EXCEPT ![song_id] = song2]]

UpdateSong(song_id, u, file, cover, album_id) ==
    LET r == update_song(song_id, u, file, cover, album_id)
    IN /\ WithinBounds(r)
       /\ songs' = r.songs
       /\ fs' = r.disk
       /\ covers' = r.covers
       /\ resp' = [Reply("update_song", song_id, r.status, r.detail)
                       EXCEPT !.probe = r.probe]
       /\ UNCHANGED <<now, gen, streams, catalog, liked_songs>>

\* the song_playlist rows of a song deleted
without_song(tbl, song_id) ==
    [i \in DOMAIN tbl |->
        IF tbl[i] = NoPlaylist THEN NoPlaylist
        ELSE [tbl[i] EXCEPT !.songs = @ \ {song_id}]]

DeleteSong(song_id, u) ==
    LET db_song == SongById(songs, song_id)
    IN /\ IF db_song = NoSong
          THEN /\ resp' = Reply("delete_song", song_id, 404, "Song not found")
               /\ UNCHANGED <<songs, fs, playlists, liked_songs>>
          ELSE IF db_song.creator_id # u
          THEN /\ resp' = Reply("delete_song", song_id, 403,
                                "Not authorized to delete this song")
               /\ UNCHANGED <<songs, fs, playlists, liked_songs>>
          ELSE LET d == IF exists(fs, db_song.file_path)
                        THEN remove(fs, db_song.file_path) ELSE fs
               IN /\ fs' = d
                  /\ songs' = [songs EXCEPT ![song_id] = NoSong]
                  \* db.delete also deletes the rows of the secondary
                  \* tables of Song.liked_by and Song.playlists
                  /\ liked_songs' = {l \in liked_songs : l[2] # song_id}
                  /\ playlists' = without_song(playlists, song_id)
                  /\ resp' = Reply("delete_song", song_id, 200,
                                   "Song deleted successfully")
       /\ UNCHANGED <<covers, now, gen, streams, albums, following, users, sessions>>

\* =================================================================
\* stream_song, stream_file, get_song_info
\* =================================================================
\* the extension -> MIME table, default audio/mpeg
content_type_of(ext) ==
    CASE ext = ".mp3" -> "audio/mpeg"
      [] ext = ".wav" -> "audio/wav"
      [] ext = ".ogg" -> "audio/ogg"
      [] ext = ".m4a" -> "audio/mp4"
      [] ext = ".flac" -> "audio/flac"
      [] OTHER -> "audio/mpeg"

\* faulty variant: the default end one past the last byte
DefaultEnd_FileSize(file_size) == file_size

\* end = file_size - 1
DefaultEnd(file_size) == file_size - 1

\* the parts of the range value: replace('bytes=', '').split('-')
range_header(range) == StrSplit(StrRemove(range.v, BytesEq), "-")

\* faulty variant: the end converted without the `if range_header[1]` test
ParseRange_NoOpenEnd(range, file_size) ==
    IF ~range.some \/ range.v = <<>>
    THEN [error |-> "none", start |-> 0, end |-> DefaultEnd(file_size)]
    ELSE LET parts == range_header(range)
         IN IF ~IsIntLiteral(parts[1])
            THEN [error |-> "ValueError", start |-> 0, end |-> 0]
            ELSE IF Len(parts) < 2
            THEN [error |-> "IndexError", start |-> 0, end |-> 0]
            ELSE IF ~IsIntLiteral(parts[2])
            THEN [error |-> "ValueError", start |-> 0, end |-> 0]
            ELSE [error |-> "none", start |-> IntValue(parts[1]),
                  end |-> IntValue(parts[2])]

\* "Handle range request": the start and end stream_song ends up with, or
\* the exception the parsing raises
ParseRange(range, file_size) ==
    IF ~range.some \/ range.v = <<>>
    THEN [error |-> "none", start |-> 0, end |-> DefaultEnd(file_size)]
    ELSE LET parts == range_header(range)
         IN IF ~IsIntLiteral(parts[1])
            THEN [error |-> "ValueError", start |-> 0, end |-> 0]
            ELSE IF Len(parts) < 2
            THEN [error |-> "IndexError", start |-> 0, end |-> 0]
            ELSE IF parts[2] = <<>>
            THEN [error |-> "none", start |-> IntValue(parts[1]),
                  end |-> DefaultEnd(file_size)]
            ELSE IF ~IsIntLiteral(parts[2])
            THEN [error |-> "ValueError", start |-> 0, end |-> 0]
            ELSE [error |-> "none", start |-> IntValue(parts[1]),
                  end |-> IntValue(parts[2])]

\* faulty variant: the range parsed before the backing file is looked for
stream_song_RangeFirst(song_id, range) ==
    LET song == SongById(songs, song_id)
        file_size == IF exists(fs, song.file_path)
                     THEN getsize(fs, song.file_path) ELSE 0
        pr == ParseRange(range, file_size)
        base == [op |-> "stream_song", song_id |-> song_id, range |-> range,
                 status |-> 0, detail |-> "", headers |-> NoHeaders]
    IN IF song = NoSong
       THEN [base EXCEPT !.status = 404, !.detail = "Song not found"]
       ELSE IF pr.error = "ValueError"
       THEN [base EXCEPT !.status = 400, !.detail = "Invalid range header"]
       ELSE IF pr.error # "none"
       THEN [base EXCEPT !.status = 500, !.detail = "Internal Server Error"]
       ELSE IF ~exists(fs, song.file_path)
       THEN [base EXCEPT !.status = 404, !.detail = "Song file not found"]
       ELSE [base EXCEPT
               !.status = 200,
               !.headers =
                  [content_type |-> content_type_of(song.file_path.name.ext),
                   content_length |-> pr.end - pr.start + 1,
                   content_range |-> <<"bytes", pr.start, pr.end, file_size>>]]

\* the response stream_song returns, or the error it raises
stream_song(song_id, range) ==
    LET song == SongById(songs, song_id)
        file_size == getsize(fs, song.file_path)
        pr == ParseRange(range, file_size)
        base == [op |-> "stream_song", song_id |-> song_id, range |-> range,
                 status |-> 0, detail |-> "", headers |-> NoHeaders]
    IN IF song = NoSong
       THEN [base EXCEPT !.status = 404, !.detail = "Song not found"]
       ELSE IF ~exists(fs, song.file_path)
       THEN [base EXCEPT !.status = 404, !.detail = "Song file not found"]
       ELSE IF pr.error = "ValueError"
       THEN [base EXCEPT !.status = 400, !.detail = "Invalid range header"]
       ELSE IF pr.error # "none"
       THEN [base EXCEPT !.status = 500, !.detail = "Internal Server Error"]
       ELSE [base EXCEPT
               !.status = 200,
               !.headers =
                  [content_type |-> content_type_of(song.file_path.name.ext),
                   content_length |-> pr.end - pr.start + 1,
                   content_range |-> <<"bytes", pr.start, pr.end, file_size>>]]

\* the generator object stream_file(song.file_path, start, end + 1): nothing
\* of its body has run yet
stream_file(file_path, start, end) ==
    [state |-> "created", file_path |-> file_path, start |-> start,
     end |-> end, file |-> NoFile, pos |-> 0, body |-> <<>>]

\* faulty variant: the inclusive end passed on as it is
EndArg_Inclusive(end) == end

\* the end argument stream_song passes to stream_file: end + 1
EndArg(end) == end + 1

StreamSong(song_id, range) ==
    LET r == stream_song(song_id, range)
    IN /\ resp' = r
       /\ gen' = IF r.status = 200
                 THEN stream_file(SongById(songs, song_id).file_path,
                                  r.headers.content_range[2],
                                  EndArg(r.headers.content_range[3]))
                 ELSE NoGen
       /\ UNCHANGED <<songs, fs, covers, now, streams, catalog, liked_songs>>

\* faulty variant: all that is left of the range asked for in one read
ReadSize_WholeSpan(start, end) == end - start

\* faulty variant: a whole chunk asked for, whatever is left of the range
ReadSize_WholeChunk(start, end) == CHUNK_SIZE

\* the number of bytes one iteration asks the file for
ReadSize(start, end) == Min(CHUNK_SIZE, end - start)

\* one iteration of the `while True` loop of stream_file, the file open
Iterate(g) ==
    IF g.start >= g.end
    THEN [g EXCEPT !.state = "done"]
    ELSE LET chunk == read(g.file, g.pos, ReadSize(g.start, g.end))
         IN IF chunk.len = 0
            THEN [g EXCEPT !.state = "done"]
            ELSE [g EXCEPT !.start = g.start + chunk.len,
                           !.pos = g.pos + chunk.len,
                           !.body = Append(g.body, chunk)]

\* aiofiles.open(file_path, 'rb') and file.seek(start), the file existing
Opened(g) ==
    [g EXCEPT !.state = "open", !.file = fs[g.file_path], !.pos = g.start]

\* The response writer asks the generator for its next chunk: the first time
\* the file is opened and the cursor set to start; each time the loop runs
\* up to its next yield, or to its end.
StreamFileNext ==
    /\ gen.state \in {"created", "open"}
    /\ gen' = IF gen.state = "open" THEN Iterate(gen)
              ELSE IF ~exists(fs, gen.file_path)
              THEN [gen EXCEPT !.state = "error"]
              ELSE Iterate(Opened(gen))
    /\ UNCHANGED <<songs, fs, covers, now, resp, streams, catalog,
                   liked_songs>>

GetSongInfo(song_id) ==
    LET song == SongById(songs, song_id)
        base == Reply("get_song_info", song_id, 0, "")
    IN /\ resp' =
            IF song = NoSong
            THEN [base EXCEPT !.status = 404, !.detail = "Song not found"]
            ELSE IF ~exists(fs, song.file_path)
            THEN [base EXCEPT !.status = 404,
                              !.detail = "Song file not found"]
            ELSE [base EXCEPT
                    !.status = 200,
                    !.headers =
                       [file_size |-> getsize(fs, song.file_path),
                        content_type |->
                            content_type_of(song.file_path.name.ext),
                        file_path |-> song.file_path]]
       /\ UNCHANGED <<songs, fs, covers, now, gen, streams, catalog,
                      liked_songs>>

\* get_song
GetSong(song_id) ==
    /\ resp' = IF SongById(songs, song_id) = NoSong
               THEN Reply("get_song", song_id, 404, "Song not found")
               ELSE Reply("get_song", song_id, 200, "")
    /\ UNCHANGED <<songs, fs, covers, now, gen, streams, catalog,
                   liked_songs>>

\* a second passes
Tick ==
    /\ now < MaxTime
    /\ now' = now + 1
    /\ UNCHANGED <<songs, fs, covers, resp, gen, streams, catalog,
                   liked_songs>>

\* =================================================================
\* The specification: requests are served one after another, and a streaming
\* response is written out to its end
\* =================================================================
Init ==
    /\ songs = [i \in SongIds |-> NoSong]
    /\ fs = [p \in Paths |-> NoFile]
    /\ covers = {}
    /\ now = 1
    /\ resp = Reply("none", 0, 0, "")
    /\ gen = NoGen
    /\ streams = [i \in StreamSlots |-> NoStream]
    /\ albums = [i \in AlbumIds |-> NoAlbum]
    /\ playlists = [i \in PlaylistIds |-> NoPlaylist]
    /\ liked_songs = {}
    /\ following = {}
    /\ users = [u \in Members |->
                  [username |-> Usernames[u], email |-> Emails[u], bio |-> "",
                   is_artist |-> u \in {1, 3}, image |-> None]]
    /\ sessions = [u \in Members |-> NoSession]

\* stream_song, get_song_info and get_song change neither the table nor the
\* disk and their responses depend on nothing else, so the behaviours that
\* end with one such request reach every pair of a table-and-disk state and
\* a response to it
Writing == resp.op \notin {"stream_song", "get_song_info", "get_song"}

RequestIds == 1..(MaxSongs + 1)

\* the create_song requests: every upload by the artist, one request by the
\* listener; none carries a cover
CreateRequests ==
    {<<1, file, NoUpload>> : file \in CreateUploads}
      \cup {<<2, Upload(f, "audio/mpeg", Track, "ok"), NoUpload>> :
                f \in Filenames}

\* the update_song requests: every upload by the artist for the ids the
\* table can hold, one request for an id it cannot hold, one request per id
\* by the listener; none carries a cover
UpdateRequests ==
    {<<song_id, 1, file, NoUpload>> : song_id \in SongIds,
                                      file \in UpdateUploads \cup {NoUpload}}
      \cup {<<song_id, u, Upload(f, "audio/mpeg", Track, "ok"), NoUpload>> :
                song_id \in {MaxSongs + 1}, u \in {1}, f \in Filenames}
      \cup {<<song_id, u, Upload(f, "audio/mpeg", Track, "ok"), NoUpload>> :
                song_id \in SongIds, u \in {2}, f \in Filenames}

Next ==
    \/ Writing /\ \E q \in CreateRequests : CreateSong(q[1], q[2], q[3], None)
    \/ Writing /\ \E q \in UpdateRequests :
                       UpdateSong(q[1], q[2], q[3], q[4], None)
    \/ Writing /\ \E song_id \in RequestIds, u \in Users :
                       DeleteSong(song_id, u)
    \/ Writing /\ Tick
    \/ Writing /\ \E song_id \in RequestIds, range \in RangeValues :
                       StreamSong(song_id, range)
    \/ Writing /\ \E song_id \in RequestIds : GetSongInfo(song_id)
    \/ Writing /\ \E song_id \in RequestIds : GetSong(song_id)
    \/ StreamFileNext

Spec == Init /\ [][Next]_vars

\* =================================================================
\* albums.py
\* =================================================================
\* a release_date form value: its text and whether it is in ISO format
ValidDate == [text |-> "2024-05-01", iso |-> TRUE]
BadDate == [text |-> "yesterday", iso |-> FALSE]
NoDate == [text |-> "", iso |-> FALSE]

\* the response of an album handler, with the request it answers
AlbumReply(op, album_id, song_id, u, status, detail) ==
    [op |-> op, album_id |-> album_id, song_id |-> song_id, user_id |-> u,
     status |-> status, detail |-> detail]

AlbumById(tbl, album_id) ==
    IF album_id \in DOMAIN tbl THEN tbl[album_id] ELSE NoAlbum

\* the id the database gives the next albums row
NextAlbumId ==
    IF \A i \in AlbumIds : albums[i] = NoAlbum THEN 1
    ELSE 1 + CHOOSE i \in AlbumIds :
                 albums[i] # NoAlbum
                 /\ \A j \in AlbumIds : j > i => albums[j] = NoAlbum

\* what a handler leaves when it raises
Refuse(status, detail) ==
    [status |-> status, detail |-> detail, albums |-> albums,
     songs |-> songs, covers |-> covers, new_id |-> 0]

create_album(u, title, release_date, cover) ==
    LET has_cover == cover # NoUpload
        covers1 == IF has_cover THEN covers \cup {NewCover} ELSE covers
        cover_path == IF has_cover THEN NewCover ELSE None
    IN IF ~is_artist(u)
       THEN Refuse(403, "Only artists can create albums")
       ELSE IF has_cover /\ ~startswith(cover.content_type, "image/")
       THEN Refuse(400, "Cover must be an image file")
       ELSE IF has_cover /\ cover.size # 0 /\ cover.size > MAX_COVER_SIZE
       THEN Refuse(400, "Cover image too large (max 5MB)")
       ELSE IF ~release_date.iso
       THEN [Refuse(400, "Invalid date format") EXCEPT !.covers = covers1]
       ELSE [status |-> 200, detail |-> "", songs |-> songs,
             covers |-> covers1, new_id |-> NextAlbumId,
             albums |-> [i \in AlbumIds |->
                           IF i = NextAlbumId
                           THEN [title |-> title,
                                 release_date |-> release_date.text,
                                 cover_image |-> cover_path,
                                 creator_id |-> u]
                           ELSE albums[i]]]

CreateAlbum(u, title, release_date, cover) ==
    LET r == create_album(u, title, release_date, cover)
    IN /\ r.covers \subseteq 1..MaxCovers
       /\ r.new_id <= MaxAlbums
       /\ albums' = r.albums
       /\ covers' = r.covers
       /\ resp' = AlbumReply("create_album", r.new_id, None, u,
                             r.status, r.detail)
       /\ UNCHANGED <<songs, fs, now, gen, streams, playlists, liked_songs,
                      following, users, sessions>>

update_album(album_id, u, title, release_date, cover) ==
    LET db_album == AlbumById(albums, album_id)
        album1 == IF title # "" THEN [db_album EXCEPT !.title = title]
                  ELSE db_album
        album2 == IF release_date.text # ""
                  THEN [album1 EXCEPT !.release_date = release_date.text]
                  ELSE album1
        has_cover == cover # NoUpload
        old_cover_path == db_album.cover_image
        album3 == IF has_cover THEN [album2 EXCEPT !.cover_image = NewCover]
                  ELSE album2
        covers1 == IF has_cover
                   THEN (covers \cup {NewCover}) \ {old_cover_path}
                   ELSE covers
    IN IF db_album = NoAlbum
       THEN Refuse(404, "Album not found")
       ELSE IF db_album.creator_id # u
       THEN Refuse(403, "Not authorized to update this album")
       ELSE IF release_date.text # "" /\ ~release_date.iso
       THEN Refuse(400, "Invalid date format")
       ELSE IF has_cover /\ ~startswith(cover.content_type, "image/")
       THEN Refuse(400, "Cover must be an image file")
       ELSE [status |-> 200, detail |-> "", songs |-> songs,
             covers |-> covers1, new_id |-> 0,
             albums |-> [albums EXCEPT ![album_id] = album3]]

UpdateAlbum(album_id, u, title, release_date, cover) ==
    LET r == update_album(album_id, u, title, release_date, cover)
    IN /\ r.covers \subseteq 1..MaxCovers
       /\ albums' = r.albums
       /\ covers' = r.covers
       /\ resp' = AlbumReply("update_album", album_id, None, u,
                             r.status, r.detail)
       /\ UNCHANGED <<songs, fs, now, gen, streams, playlists, liked_songs,
                      following, users, sessions>>

\* db.delete(db_album): Album.songs has no delete cascade, so the songs of
\* the album stay and their album_id is set to NULL
delete_album(album_id, u) ==
    LET db_album == AlbumById(albums, album_id)
    IN IF db_album = NoAlbum
       THEN Refuse(404, "Album not found")
       ELSE IF db_album.creator_id # u
       THEN Refuse(403, "Not authorized to delete this album")
       ELSE [status |-> 200, detail |-> "Album deleted successfully",
             covers |-> covers, new_id |-> 0,
             albums |-> [albums EXCEPT ![album_id] = NoAlbum],
             songs |-> [i \in SongIds |->
                          IF songs[i] # NoSong /\ songs[i].album_id = album_id
                          THEN [songs[i] EXCEPT !.album_id = None]
                          ELSE songs[i]]]

DeleteAlbum(album_id, u) ==
    LET r == delete_album(album_id, u)
    IN /\ albums' = r.albums
       /\ songs' = r.songs
       /\ resp' = AlbumReply("delete_album", album_id, None, u,
                             r.status, r.detail)
       /\ UNCHANGED <<fs, covers, now, gen, streams, playlists, liked_songs,
                      following, users, sessions>>

\* faulty variant: the song is looked up before the album's creator is
\* compared
add_song_to_album_SongFirst(album_id, song_id, u) ==
    LET album == AlbumById(albums, album_id)
        song == SongById(songs, song_id)
    IN IF album = NoAlbum
       THEN Refuse(404, "Album not found")
       ELSE IF song = NoSong
       THEN Refuse(404, "Song not found")
       ELSE IF album.creator_id # u
       THEN Refuse(403, "Not authorized to modify this album")
       ELSE IF song.creator_id # u
       THEN Refuse(403, "Not authorized to add this song to the album")
       ELSE IF song.album_id = album_id
       THEN Refuse(400, "Song is already in this album")
       ELSE [status |-> 200, detail |-> "Song added to album successfully",
             covers |-> covers, new_id |-> 0, albums |-> albums,
             songs |-> [songs EXCEPT ![song_id].album_id = album_id]]

add_song_to_album(album_id, song_id, u) ==
    LET album == AlbumById(albums, album_id)
        song == SongById(songs, song_id)
    IN IF album = NoAlbum
       THEN Refuse(404, "Album not found")
       ELSE IF album.creator_id # u
       THEN Refuse(403, "Not authorized to modify this album")
       ELSE IF song = NoSong
       THEN Refuse(404, "Song not found")
       ELSE IF song.creator_id # u
       THEN Refuse(403, "Not authorized to add this song to the album")
       ELSE IF song.album_id = album_id
       THEN Refuse(400, "Song is already in this album")
       ELSE [status |-> 200, detail |-> "Song added to album successfully",
             covers |-> covers, new_id |-> 0, albums |-> albums,
             songs |-> [songs EXCEPT ![song_id].album_id = album_id]]

AddSongToAlbum(album_id, song_id, u) ==
    LET r == add_song_to_album(album_id, song_id, u)
    IN /\ songs' = r.songs
       /\ resp' = AlbumReply("add_song_to_album", album_id, song_id, u,
                             r.status, r.detail)
       /\ UNCHANGED <<fs, covers, now, gen, streams, catalog, liked_songs>>

remove_song_from_album(album_id, song_id, u) ==
    LET album == AlbumById(albums, album_id)
        song == SongById(songs, song_id)
    IN IF album = NoAlbum
       THEN Refuse(404, "Album not found")
       ELSE IF album.creator_id # u
       THEN Refuse(403, "Not authorized to modify this album")
       ELSE IF song = NoSong \/ song.album_id # album_id
       THEN Refuse(404, "Song not found in this album")
       ELSE [status |-> 200,
             detail |-> "Song removed from album successfully",
             covers |-> covers, new_id |-> 0, albums |-> albums,
             songs |-> [songs EXCEPT ![song_id].album_id = None]]

RemoveSongFromAlbum(album_id, song_id, u) ==
    LET r == remove_song_from_album(album_id, song_id, u)
    IN /\ songs' = r.songs
       /\ resp' = AlbumReply("remove_song_from_album", album_id, song_id, u,
                             r.status, r.detail)
       /\ UNCHANGED <<fs, covers, now, gen, streams, catalog, liked_songs>>

\* a request that was refused changed nothing but the response, so the
\* behaviours that end with one refused request reach every pair of a state
\* of the tables and a response to it
Refused == resp.status \in {400, 403, 404, 500}

\* songs are uploaded by user 1, albums made by both artists; every member
\* asks for every change of every album
NextAlbums ==
    \/ ~Refused /\ \E f \in Filenames :
           CreateSong(1, Upload(f, "audio/mpeg", Track, "ok"), NoUpload, None)
    \/ ~Refused /\ \E u \in Members, d \in {ValidDate, BadDate} :
           CreateAlbum(u, "A", d, NoUpload)
    \/ ~Refused /\ \E album_id \in 1..(MaxAlbums + 1), u \in Members,
                       d \in {NoDate, BadDate} :
           UpdateAlbum(album_id, u, "B", d, NoUpload)
    \/ ~Refused /\ \E album_id \in 1..(MaxAlbums + 1), u \in Members :
           DeleteAlbum(album_id, u)
    \/ ~Refused /\ \E album_id \in 1..(MaxAlbums + 1),
                       song_id \in RequestIds, u \in Members :
           AddSongToAlbum(album_id, song_id, u)
    \/ ~Refused /\ \E album_id \in 1..(MaxAlbums + 1),
                       song_id \in RequestIds, u \in Members :
           RemoveSongFromAlbum(album_id, song_id, u)

SpecAlbums == Init /\ [][NextAlbums]_vars

\* =================================================================
\* Songs put into albums by the album_id field of the create_song and
\* update_song forms as well as by the album routes.  The forms name albums
\* that exist, so that the foreign key songs.album_id -> albums.id is met
\* whatever the database does about it.
\* =================================================================
FormAlbumIds == {None} \cup {a \in AlbumIds : albums[a] # NoAlbum}

NextOwners ==
    \/ \E u \in {1, 3} : CreateAlbum(u, "A", ValidDate, NoUpload)
    \/ \E u \in Members, f \in Filenames, album_id \in FormAlbumIds :
           CreateSong(u, Upload(f, "audio/mpeg", Track, "ok"), NoUpload,
                      album_id)
    \/ \E song_id \in SongIds, u \in Members, album_id \in FormAlbumIds :
           UpdateSong(song_id, u, NoUpload, NoUpload, album_id)
    \/ \E album_id \in AlbumIds, song_id \in SongIds, u \in Members :
           AddSongToAlbum(album_id, song_id, u)
    \/ \E album_id \in AlbumIds, song_id \in SongIds, u \in Members :
           RemoveSongFromAlbum(album_id, song_id, u)

SpecOwners == Init /\ [][NextOwners]_vars

\* =================================================================
\* playlists.py
\* =================================================================
\* the response of a playlist handler, with the request it answers; `body`
\* is the playlist a 200 response shows
PlaylistReply(op, playlist_id, song_id, u, status, detail, body) ==
    [op |-> op, playlist_id |-> playlist_id, song_id |-> song_id,
     user_id |-> u, status |-> status, detail |-> detail, body |-> body]

\* faulty variant: the query without the owner_id filter
PlaylistOf_AnyOwner(tbl, playlist_id, u) ==
    IF playlist_id \in DOMAIN tbl THEN tbl[playlist_id] ELSE NoPlaylist

\* db.query(models.Playlist).filter(id == playlist_id,
\*                                  owner_id == current_user.id).first()
PlaylistOf(tbl, playlist_id, u) ==
    IF playlist_id \in DOMAIN tbl /\ tbl[playlist_id] # NoPlaylist
                                  /\ tbl[playlist_id].owner_id = u
    THEN tbl[playlist_id] ELSE NoPlaylist

\* the id the database gives the next playlists row
NextPlaylistId ==
    IF \A i \in PlaylistIds : playlists[i] = NoPlaylist THEN 1
    ELSE 1 + CHOOSE i \in PlaylistIds :
                 playlists[i] # NoPlaylist
                 /\ \A j \in PlaylistIds : j > i => playlists[j] = NoPlaylist

CreatePlaylist(u, name) ==
    /\ NextPlaylistId <= MaxPlaylists
    /\ playlists' = [playlists EXCEPT ![NextPlaylistId] =
                        [name |-> name, owner_id |-> u, songs |-> {}]]
    /\ resp' = PlaylistReply("create_playlist", NextPlaylistId, None, u, 200,
                             "", playlists'[NextPlaylistId])
    /\ UNCHANGED <<songs, fs, covers, now, gen, streams, albums, liked_songs,
                   following, users, sessions>>

GetPlaylist(playlist_id, u) ==
    LET playlist == PlaylistOf(playlists, playlist_id, u)
    IN /\ resp' = IF playlist = NoPlaylist
                  THEN PlaylistReply("get_playlist", playlist_id, None, u,
                                     404, "Playlist not found", NoPlaylist)
                  ELSE PlaylistReply("get_playlist", playlist_id, None, u,
                                     200, "", playlist)
       /\ UNCHANGED <<songs, fs, covers, now, gen, streams, catalog,
                      liked_songs>>

UpdatePlaylist(playlist_id, u, name) ==
    LET db_playlist == PlaylistOf(playlists, playlist_id, u)
    IN /\ IF db_playlist = NoPlaylist
          THEN /\ resp' = PlaylistReply("update_playlist", playlist_id, None,
                                        u, 404, "Playlist not found",
                                        NoPlaylist)
               /\ UNCHANGED playlists
          ELSE /\ playlists' = [playlists EXCEPT ![playlist_id].name = name]
               /\ resp' = PlaylistReply("update_playlist", playlist_id, None,
                                        u, 200, "", playlists'[playlist_id])
       /\ UNCHANGED <<songs, fs, covers, now, gen, streams, albums,
                      liked_songs, following, users, sessions>>

DeletePlaylist(playlist_id, u) ==
    LET db_playlist == PlaylistOf(playlists, playlist_id, u)
    IN /\ IF db_playlist = NoPlaylist
          THEN /\ resp' = PlaylistReply("delete_playlist", playlist_id, None,
                                        u, 404, "Playlist not found",
                                        NoPlaylist)
               /\ UNCHANGED playlists
          ELSE /\ playlists' = [playlists EXCEPT ![playlist_id] = NoPlaylist]
               /\ resp' = PlaylistReply("delete_playlist", playlist_id, None,
                                        u, 200,
                                        "Playlist deleted successfully",
                                        NoPlaylist)
       /\ UNCHANGED <<songs, fs, covers, now, gen, streams, albums,
                      liked_songs, following, users, sessions>>

AddSongToPlaylist(playlist_id, song_id, u) ==
    LET playlist == PlaylistOf(playlists, playlist_id, u)
        song == SongById(songs, song_id)
        refuse(status, detail) ==
            /\ resp' = PlaylistReply("add_song_to_playlist", playlist_id,
                                     song_id, u, status, detail, NoPlaylist)
            /\ UNCHANGED playlists
    IN /\ IF playlist = NoPlaylist
          THEN refuse(404, "Playlist not found")
          ELSE IF song = NoSong
          THEN refuse(404, "Song not found")
          ELSE IF song_id \in playlist.songs
          THEN refuse(400, "Song already in playlist")
          ELSE /\ playlists' = [playlists EXCEPT
                                  ![playlist_id].songs = @ \cup {song_id}]
               /\ resp' = PlaylistReply("add_song_to_playlist", playlist_id,
                                        song_id, u, 200,
                                        "Song added to playlist successfully",
                                        NoPlaylist)
       /\ UNCHANGED <<songs, fs, covers, now, gen, streams, albums,
                      liked_songs, following, users, sessions>>

RemoveSongFromPlaylist(playlist_id, song_id, u) ==
    LET playlist == PlaylistOf(playlists, playlist_id, u)
        song == SongById(songs, song_id)
        refuse(status, detail) ==
            /\ resp' = PlaylistReply("remove_song_from_playlist",
                                     playlist_id, song_id, u, status, detail,
                                     NoPlaylist)
            /\ UNCHANGED playlists
    IN /\ IF playlist = NoPlaylist
          THEN refuse(404, "Playlist not found")
          ELSE IF song = NoSong
          THEN refuse(404, "Song not found")
          ELSE IF song_id \notin playlist.songs
          THEN refuse(400, "Song not in playlist")
          ELSE /\ playlists' = [playlists EXCEPT
                                  ![playlist_id].songs = @ \ {song_id}]
               /\ resp' = PlaylistReply("remove_song_from_playlist",
                                        playlist_id, song_id, u, 200,
                                        "Song removed from playlist successfully",
                                        NoPlaylist)
       /\ UNCHANGED <<songs, fs, covers, now, gen, streams, albums,
                      liked_songs, following, users, sessions>>

\* a response that shows a playlist changes nothing either
Shown == Refused \/ resp.op = "get_playlist"

\* songs are uploaded by user 1, playlists made by users 1 and 2; every
\* member asks for every playlist and every change of it
NextPlaylists ==
    \/ ~Shown /\ \E f \in Filenames :
           CreateSong(1, Upload(f, "audio/mpeg", Track, "ok"), NoUpload, None)
    \/ ~Shown /\ \E u \in Users : CreatePlaylist(u, "P")
    \/ ~Shown /\ \E playlist_id \in 1..(MaxPlaylists + 1), u \in Members :
           GetPlaylist(playlist_id, u)
    \/ ~Shown /\ \E playlist_id \in 1..(MaxPlaylists + 1), u \in Members :
           UpdatePlaylist(playlist_id, u, "Q")
    \/ ~Shown /\ \E playlist_id \in 1..(MaxPlaylists + 1), u \in Members :
           DeletePlaylist(playlist_id, u)
    \/ ~Shown /\ \E playlist_id \in 1..(MaxPlaylists + 1),
                      song_id \in RequestIds, u \in Members :
           AddSongToPlaylist(playlist_id, song_id, u)
    \/ ~Shown /\ \E playlist_id \in 1..(MaxPlaylists + 1),
                      song_id \in RequestIds, u \in Members :
           RemoveSongFromPlaylist(playlist_id, song_id, u)
    \/ ~Shown /\ \E song_id \in SongIds : DeleteSong(song_id, 1)

SpecPlaylists == Init /\ [][NextPlaylists]_vars

\* =================================================================
\* the likes of songs.py and albums.py
\* =================================================================
\* the response of a like handler, with the request it answers
LikeReply(op, id, u, status, detail, is_liked) ==
    [op |-> op, id |-> id, user_id |-> u, status |-> status,
     detail |-> detail, is_liked |-> is_liked]

Max(a, b) == IF a >= b THEN a ELSE b

\* `song in current_user.liked_songs`
in_liked_songs(liked, song_id, u) == <<u, song_id>> \in liked

\* what a like handler leaves when it raises
RefuseLike(tbl, liked, status, detail) ==
    [status |-> status, detail |-> detail, songs |-> tbl,
     liked_songs |-> liked]

\* faulty variant: no test for the song being liked already
like_song_NoTest(tbl, liked, song_id, u) ==
    IF SongById(tbl, song_id) = NoSong
    THEN RefuseLike(tbl, liked, 404, "Song not found")
    ELSE [status |-> 200, detail |-> "Song liked successfully",
          songs |-> [tbl EXCEPT ![song_id].like_count = @ + 1],
          liked_songs |-> liked \cup {<<u, song_id>>}]

\* like_song on a songs table and a user_liked_songs table
like_song(tbl, liked, song_id, u) ==
    IF SongById(tbl, song_id) = NoSong
    THEN RefuseLike(tbl, liked, 404, "Song not found")
    ELSE IF in_liked_songs(liked, song_id, u)
    THEN RefuseLike(tbl, liked, 400, "Song already liked")
    ELSE [status |-> 200, detail |-> "Song liked successfully",
          songs |-> [tbl EXCEPT ![song_id].like_count = @ + 1],
          liked_songs |-> liked \cup {<<u, song_id>>}]

\* faulty variant: the count is lowered and the row of user_liked_songs
\* stays
unlike_song_KeepsRow(tbl, liked, song_id, u) ==
    IF SongById(tbl, song_id) = NoSong
    THEN RefuseLike(tbl, liked, 404, "Song not found")
    ELSE IF ~in_liked_songs(liked, song_id, u)
    THEN RefuseLike(tbl, liked, 400, "Song not liked")
    ELSE [status |-> 200, detail |-> "Song unliked successfully",
          songs |-> [tbl EXCEPT ![song_id].like_count = Max(0, @ - 1)],
          liked_songs |-> liked]

\* unlike_song on a songs table and a user_liked_songs table
unlike_song(tbl, liked, song_id, u) ==
    IF SongById(tbl, song_id) = NoSong
    THEN RefuseLike(tbl, liked, 404, "Song not found")
    ELSE IF ~in_liked_songs(liked, song_id, u)
    THEN RefuseLike(tbl, liked, 400, "Song not liked")
    ELSE [status |-> 200, detail |-> "Song unliked successfully",
          songs |-> [tbl EXCEPT ![song_id].like_count = Max(0, @ - 1)],
          liked_songs |-> liked \ {<<u, song_id>>}]

\* check_if_song_liked: the is_liked of its answer
check_if_song_liked(tbl, liked, song_id, u) ==
    IF SongById(tbl, song_id) = NoSong
    THEN LikeReply("check_if_song_liked", song_id, u, 404, "Song not found",
                   FALSE)
    ELSE LikeReply("check_if_song_liked", song_id, u, 200, "",
                   in_liked_songs(liked, song_id, u))

LikeSong(song_id, u) ==
    LET r == like_song(songs, liked_songs, song_id, u)
    IN /\ songs' = r.songs
       /\ liked_songs' = r.liked_songs
       /\ resp' = LikeReply("like_song", song_id, u, r.status, r.detail,
                            FALSE)
       /\ UNCHANGED <<fs, covers, now, gen, streams, catalog>>

UnlikeSong(song_id, u) ==
    LET r == unlike_song(songs, liked_songs, song_id, u)
    IN /\ songs' = r.songs
       /\ liked_songs' = r.liked_songs
       /\ resp' = LikeReply("unlike_song", song_id, u, r.status, r.detail,
                            FALSE)
       /\ UNCHANGED <<fs, covers, now, gen, streams, catalog>>

CheckIfSongLiked(song_id, u) ==
    /\ resp' = check_if_song_liked(songs, liked_songs, song_id, u)
    /\ UNCHANGED <<songs, fs, covers, now, gen, streams, catalog,
                   liked_songs>>

\* the attributes models.User and models.Album declare
UserAttrs ==
    {"id", "email", "username", "hashed_password", "is_active", "is_artist",
     "bio", "image", "created_at", "playlists", "liked_songs", "songs",
     "albums", "following", "followers"}
AlbumAttrs ==
    {"id", "title", "release_date", "cover_image", "created_at",
     "creator_id", "creator", "songs"}

\* like_album: current_user.liked_albums and album.like_count are read
LikeAlbum(album_id, u) ==
    LET album == AlbumById(albums, album_id)
    IN /\ IF album = NoAlbum
          THEN /\ resp' = LikeReply("like_album", album_id, u, 404,
                                    "Album not found", FALSE)
               /\ UNCHANGED albums
          ELSE IF "liked_albums" \notin UserAttrs
                  \/ "like_count" \notin AlbumAttrs
          THEN \* AttributeError
               /\ resp' = LikeReply("like_album", album_id, u, 500,
                                    "Internal Server Error", FALSE)
               /\ UNCHANGED albums
          ELSE /\ albums' = [albums EXCEPT ![album_id].like_count = @ + 1]
               /\ resp' = LikeReply("like_album", album_id, u, 200,
                                    "Album liked successfully", FALSE)
       /\ UNCHANGED <<songs, fs, covers, now, gen, streams, playlists,
                      liked_songs, following, users, sessions>>

\* unlike_album: the same two attributes
UnlikeAlbum(album_id, u) ==
    LET album == AlbumById(albums, album_id)
    IN /\ IF album = NoAlbum
          THEN /\ resp' = LikeReply("unlike_album", album_id, u, 404,
                                    "Album not found", FALSE)
               /\ UNCHANGED albums
          ELSE IF "liked_albums" \notin UserAttrs
                  \/ "like_count" \notin AlbumAttrs
          THEN \* AttributeError
               /\ resp' = LikeReply("unlike_album", album_id, u, 500,
                                    "Internal Server Error", FALSE)
               /\ UNCHANGED albums
          ELSE /\ albums' = [albums EXCEPT
                               ![album_id].like_count = Max(0, @ - 1)]
               /\ resp' = LikeReply("unlike_album", album_id, u, 200,
                                    "Album unliked successfully", FALSE)
       /\ UNCHANGED <<songs, fs, covers, now, gen, streams, playlists,
                      liked_songs, following, users, sessions>>

\* an answer that changed nothing
Answered == Refused \/ resp.op = "check_if_song_liked"

\* user 1 uploads songs and makes albums; every member likes, unlikes and
\* asks
NextLikes ==
    \/ ~Answered /\ \E f \in Filenames :
           CreateSong(1, Upload(f, "audio/mpeg", Track, "ok"), NoUpload, None)
    \/ ~Answered /\ CreateAlbum(1, "A", ValidDate, NoUpload)
    \/ ~Answered /\ \E song_id \in RequestIds, u \in Members :
           LikeSong(song_id, u)
    \/ ~Answered /\ \E song_id \in RequestIds, u \in Members :
           UnlikeSong(song_id, u)
    \/ ~Answered /\ \E song_id \in RequestIds, u \in Members :
           CheckIfSongLiked(song_id, u)
    \/ ~Answered /\ \E album_id \in 1..(MaxAlbums + 1), u \in Members :
           LikeAlbum(album_id, u)
    \/ ~Answered /\ \E album_id \in 1..(MaxAlbums + 1), u \in Members :
           UnlikeAlbum(album_id, u)
    \/ ~Answered /\ \E song_id \in SongIds : DeleteSong(song_id, 1)

SpecLikes == Init /\ [][NextLikes]_vars

\* ------------------------------------ like_song, unlike_song: two sessions
\* The handlers run in worker threads, each on a database session of its
\* own.  A handler queries the song and the user's liked songs, changes the
\* objects it loaded, and db.commit() writes what it changed: the row of
\* user_liked_songs, and the like_count it computed from the value it read.

\* the handler `op` of user u runs up to its db.commit()
BeginLike(op, song_id, u) ==
    LET r == IF op = "like_song"
             THEN like_song(songs, liked_songs, song_id, u)
             ELSE unlike_song(songs, liked_songs, song_id, u)
    IN /\ sessions[u] = NoSession
       /\ sessions' =
             [sessions EXCEPT ![u] =
                [op |-> op, song_id |-> song_id, status |-> r.status,
                 detail |-> r.detail,
                 like_count |-> IF r.status = 200
                                THEN r.songs[song_id].like_count ELSE 0]]
       /\ UNCHANGED <<songs, fs, covers, now, resp, gen, streams, albums,
                      playlists, liked_songs, following, users>>

\* db.commit() and the return, or the HTTPException
CommitLike(u) ==
    LET s == sessions[u]
    IN /\ s # NoSession
       /\ sessions' = [sessions EXCEPT ![u] = NoSession]
       /\ resp' = LikeReply(s.op, s.song_id, u, s.status, s.detail, FALSE)
       /\ IF s.status # 200
          THEN UNCHANGED <<songs, liked_songs>>
          ELSE /\ songs' = [songs EXCEPT ![s.song_id].like_count =
                                             s.like_count]
               /\ liked_songs' = IF s.op = "like_song"
                                 THEN liked_songs \cup {<<u, s.song_id>>}
                                 ELSE liked_songs \ {<<u, s.song_id>>}
       /\ UNCHANGED <<fs, covers, now, gen, streams, albums, playlists,
                      following, users>>

\* user 1 uploads; users 1 and 2 like and unlike, their requests overlapping
NextLikeRaces ==
    \/ /\ liked_songs = {}
       /\ \A u \in Members : sessions[u] = NoSession
       /\ \E f \in Filenames :
             CreateSong(1, Upload(f, "audio/mpeg", Track, "ok"), NoUpload, None)
    \/ \E op \in {"like_song", "unlike_song"}, song_id \in RequestIds,
          u \in Users :
           /\ \A s \in SongIds :
                 songs[s] # NoSong => songs[s].like_count <= MaxLikes
           /\ BeginLike(op, song_id, u)
    \/ \E u \in Users : CommitLike(u)

SpecLikeRaces == Init /\ [][NextLikeRaces]_vars

\* ------------------------------------------------- users.py: follow, unfollow

\* the ids a follow request may name: the members and one id of no user
TargetIds == 1..4

FollowReply(op, user_id, u, status, detail, r) ==
    [op |-> op, target_id |-> user_id, user_id |-> u, status |-> status,
     detail |-> detail, is_following |-> r.is_following,
     follower_count |-> r.follower_count,
     following_count |-> r.following_count]

\* schemas.FollowResponse for target_user: `fol` holds <<follower, followed>>
FollowResponse(fol, user_id, is_following) ==
    [is_following |-> is_following,
     follower_count |-> Cardinality({f \in fol : f[2] = user_id}),
     following_count |-> Cardinality({f \in fol : f[1] = user_id})]

\* an HTTPException carries no FollowResponse
RefuseFollow(fol, status, detail) ==
    [status |-> status, detail |-> detail, following |-> fol,
     body |-> [is_following |-> FALSE, follower_count |-> 0,
               following_count |-> 0]]

\* faulty variant: follow_user without the test of the caller's own id
follow_user_NoSelfTest(fol, user_id, u) ==
    IF user_id \notin Members
    THEN RefuseFollow(fol, 404, "User not found")
    ELSE IF <<u, user_id>> \in fol
    THEN RefuseFollow(fol, 400, "Already following this user")
    ELSE LET added == fol \cup {<<u, user_id>>}
         IN [status |-> 200, detail |-> "", following |-> added,
             body |-> FollowResponse(added, user_id, TRUE)]

follow_user(fol, user_id, u) ==
    IF user_id \notin Members
    THEN RefuseFollow(fol, 404, "User not found")
    ELSE IF <<u, user_id>> \in fol
    THEN RefuseFollow(fol, 400, "Already following this user")
    ELSE IF user_id = u
    THEN RefuseFollow(fol, 400, "Cannot follow yourself")
    ELSE LET added == fol \cup {<<u, user_id>>}
         IN [status |-> 200, detail |-> "", following |-> added,
             body |-> FollowResponse(added, user_id, TRUE)]

unfollow_user(fol, user_id, u) ==
    IF user_id \notin Members
    THEN RefuseFollow(fol, 404, "User not found")
    ELSE IF <<u, user_id>> \notin fol
    THEN RefuseFollow(fol, 400, "Not following this user")
    ELSE LET removed == fol \ {<<u, user_id>>}
         IN [status |-> 200, detail |-> "", following |-> removed,
             body |-> FollowResponse(removed, user_id, FALSE)]

get_follow_status(fol, user_id, u) ==
    IF user_id \notin Members
    THEN RefuseFollow(fol, 404, "User not found")
    ELSE [status |-> 200, detail |-> "", following |-> fol,
          body |-> FollowResponse(fol, user_id, <<u, user_id>> \in fol)]

FollowUser(user_id, u) ==
    LET r == follow_user(following, user_id, u)
    IN /\ following' = r.following
       /\ resp' = FollowReply("follow_user", user_id, u,
                              r.status, r.detail, r.body)
       /\ UNCHANGED <<songs, fs, covers, now, gen, streams, albums,
                      playlists, liked_songs, users, sessions>>

UnfollowUser(user_id, u) ==
    LET r == unfollow_user(following, user_id, u)
    IN /\ following' = r.following
       /\ resp' = FollowReply("unfollow_user", user_id, u,
                              r.status, r.detail, r.body)
       /\ UNCHANGED <<songs, fs, covers, now, gen, streams, albums,
                      playlists, liked_songs, users, sessions>>

GetFollowStatus(user_id, u) ==
    LET r == get_follow_status(following, user_id, u)
    IN /\ resp' = FollowReply("get_follow_status", user_id, u,
                              r.status, r.detail, r.body)
       /\ UNCHANGED <<songs, fs, covers, now, gen, streams, albums,
                      playlists, liked_songs, following, users, sessions>>

\* every member follows, unfollows and asks, naming any id
NextFollows ==
    \/ \E user_id \in TargetIds, u \in Members : FollowUser(user_id, u)
    \/ \E user_id \in TargetIds, u \in Members : UnfollowUser(user_id, u)
    \/ \E user_id \in TargetIds, u \in Members : GetFollowStatus(user_id, u)

SpecFollows == Init /\ [][NextFollows]_vars

\* ------------------------------------------------ users.py: update profile

UserReply(u, username, email, status, detail) ==
    [op |-> "update_current_user", user_id |-> u, username |-> username,
     email |-> email, status |-> status, detail |-> detail]

\* db.query(User).filter(column == value).first(): is there such a row
Taken(tbl, column, value) == \E v \in DOMAIN tbl : tbl[v][column] = value

\* faulty variant: update_current_user without the test of the email
update_current_user_NoEmailTest(tbl, u, username, email, bio, artist) ==
    IF username # tbl[u].username /\ Taken(tbl, "username", username)
    THEN [status |-> 400, detail |-> "Username already taken", users |-> tbl]
    ELSE [status |-> 200, detail |-> "",
          users |-> [tbl EXCEPT ![u] =
                       [username |-> username, email |-> email, bio |-> bio,
                        is_artist |-> artist, image |-> tbl[u].image]]]

\* update_current_user for a form without an image part
update_current_user(tbl, u, username, email, bio, artist) ==
    IF username # tbl[u].username /\ Taken(tbl, "username", username)
    THEN [status |-> 400, detail |-> "Username already taken", users |-> tbl]
    ELSE IF email # tbl[u].email /\ Taken(tbl, "email", email)
    THEN [status |-> 400, detail |-> "Email already taken", users |-> tbl]
    ELSE [status |-> 200, detail |-> "",
          users |-> [tbl EXCEPT ![u] =
                       [username |-> username, email |-> email, bio |-> bio,
                        is_artist |-> artist, image |-> tbl[u].image]]]

UpdateCurrentUser(u, username, email, bio, artist) ==
    LET r == update_current_user(users, u, username, email, bio, artist)
    IN /\ users' = r.users
       /\ resp' = UserReply(u, username, email, r.status, r.detail)
       /\ UNCHANGED <<songs, fs, covers, now, gen, streams, albums,
                      playlists, liked_songs, following, sessions>>

\* users 1 and 2 change their profiles; user 3 keeps what it registered with
NextUsers ==
    \E u \in Users, i \in DOMAIN Usernames, j \in DOMAIN Emails,
       artist \in BOOLEAN :
        UpdateCurrentUser(u, Usernames[i], Emails[j], "bio", artist)

SpecUsers == Init /\ [][NextUsers]_vars

\* =================================================================
\* Several streaming responses in flight
\* =================================================================
\* stream_song answered while other responses are still being written
StartStream(i, song_id, range) ==
    LET r == stream_song(song_id, range)
    IN /\ streams[i] = NoStream
       /\ streams' =
             [streams EXCEPT ![i] =
                [resp |-> r,
                 gen |-> IF r.status = 200
                         THEN stream_file(SongById(songs, song_id).file_path,
                                          r.headers.content_range[2],
                                          EndArg(r.headers.content_range[3]))
                         ELSE NoGen]]
       /\ UNCHANGED <<songs, fs, covers, now, resp, gen, catalog, liked_songs>>

\* faulty variant: one file object per path, shared by the generators that
\* have it open
Cursor_Shared(strs, i) ==
    LET open == {j \in DOMAIN strs :
                    /\ strs[j].gen.state = "open"
                    /\ strs[j].gen.file_path = strs[i].gen.file_path}
    IN strs[CHOOSE j \in open : \A k \in open : j <= k].gen.pos

\* the cursor of the file object `file` of generator i: each call of
\* stream_file opens its own
Cursor(strs, i) == strs[i].gen.pos

\* the writer of response i asks its generator for the next chunk
StreamNext(i) ==
    LET g == streams[i].gen
    IN /\ g.state \in {"created", "open"}
       /\ streams' =
             [streams EXCEPT ![i].gen =
                IF g.state = "open"
                THEN Iterate([g EXCEPT !.pos = Cursor(streams, i)])
                ELSE IF ~exists(fs, g.file_path)
                THEN [g EXCEPT !.state = "error"]
                ELSE Iterate(Opened(g))]
       /\ UNCHANGED <<songs, fs, covers, now, resp, gen, catalog, liked_songs>>

\* the range values of the concurrent requests
StreamRanges ==
    {NoRange, ClosedRange(CHUNK_SIZE - 1, CHUNK_SIZE), OpenRange(100)}

\* uploads come first, then the streams are asked for and written out in
\* any interleaving
NextStreams ==
    \/ /\ \A i \in StreamSlots : streams[i] = NoStream
       /\ \E f \in Filenames :
             CreateSong(1, Upload(f, "audio/mpeg", Edge, "ok"), NoUpload, None)
    \/ \E i \in StreamSlots, song_id \in SongIds, range \in StreamRanges :
           StartStream(i, song_id, range)
    \/ \E i \in StreamSlots : StreamNext(i)

SpecStreams == Init /\ [][NextStreams]_vars

\* the same responses, with the creator deleting the song or replacing its
\* file while they are written out
NextRaces ==
    \/ /\ \A i \in StreamSlots : streams[i] = NoStream
       /\ \E f \in Filenames :
             CreateSong(1, Upload(f, "audio/mpeg", Edge, "ok"), NoUpload, None)
    \/ \E i \in StreamSlots, song_id \in SongIds :
           StartStream(i, song_id, NoRange)
    \/ \E i \in StreamSlots : StreamNext(i)
    \/ \E song_id \in SongIds : DeleteSong(song_id, 1)
    \/ \E song_id \in SongIds, f \in Filenames :
           UpdateSong(song_id, 1, Upload(f, "audio/mpeg", Edge, "ok"),
                      NoUpload, None)
    \/ Tick

SpecRaces == Init /\ [][NextRaces]_vars

\* =================================================================
\* The uploads with every outcome of the duration probe
\* =================================================================
ProbedUploads ==
    {Probed(Upload(f, "audio/mpeg", b, "ok"), p) :
        f \in Filenames, b \in {Track, Tiny}, p \in ProbeOutcomes}

NextProbe ==
    \/ \E file \in ProbedUploads : CreateSong(1, file, NoUpload, None)
    \/ \E song_id \in SongIds, file \in ProbedUploads :
           UpdateSong(song_id, 1, file, NoUpload, None)
    \/ \E song_id \in SongIds : DeleteSong(song_id, 1)

SpecProbe == Init /\ [][NextProbe]_vars

\* =================================================================
\* Every range value against files of every kind: uploads and replacements
\* within one second, so that a song's path comes to hold a short file or an
\* empty one, then one stream written out to its end
\* =================================================================
NextRanges ==
    \/ Writing /\ \E f \in Filenames, b \in {Edge, Track} :
           CreateSong(1, Upload(f, "audio/mpeg", b, "ok"), NoUpload, None)
    \/ Writing /\ \E song_id \in SongIds, f \in Filenames,
                     b \in {Empty, Tiny, Edge} :
           UpdateSong(song_id, 1, Upload(f, "audio/mpeg", b, "ok"), NoUpload,
                      None)
    \/ Writing /\ \E song_id \in SongIds, range \in RangeValues :
           StreamSong(song_id, range)
    \/ StreamFileNext

SpecRanges == Init /\ [][NextRanges]_vars

\* the response writer keeps asking the generator for chunks
SpecRangesFair == SpecRanges /\ WF_vars(StreamFileNext)

\* =================================================================
\* Uploads that carry a cover: every audio part with no cover, a cover, and
\* a cover above the size limit
\* =================================================================
Picture == Blob("picture", 1000, FALSE)
BigPicture == Blob("bigpicture", MAX_COVER_SIZE + 1, FALSE)

CoverUploads ==
    {Upload([base |-> "c", ext |-> ".png"], "image/png", b, "ok") :
        b \in {Picture, BigPicture}}

NextCovers ==
    \/ \E file \in CreateUploads, cover \in CoverUploads \cup {NoUpload} :
           CreateSong(1, file, cover, None)
    \/ \E song_id \in SongIds : DeleteSong(song_id, 1)
    \/ Tick

SpecCovers == Init /\ [][NextCovers]_vars

\* =================================================================
\* What the claims speak about
\* =================================================================
\* the songs row the last request named, if there is one
HasRow(song_id) == song_id \in SongIds /\ songs[song_id] # NoSong
HasFile(song_id) == HasRow(song_id) /\ fs[songs[song_id].file_path] # NoFile

\* the backing file of the song the last request named
TheFile == fs[songs[resp.song_id].file_path]

\* a stream_song request for a song whose row and backing file exist
Streamable == resp.op = "stream_song" /\ HasFile(resp.song_id)

\* the bytes [off, off + len) of a file, as one span
FileBytes(file, off, len) ==
    IF len <= 0 THEN <<>>
    ELSE <<[data |-> file.data, off |-> off, len |-> len]>>

\* the bytes of a body: its chunks joined into maximal spans
RECURSIVE BodyBytes(_)
BodyBytes(body) ==
    IF body = <<>> THEN <<>>
    ELSE LET front == BodyBytes(SubSeq(body, 1, Len(body) - 1))
             c == body[Len(body)]
         IN IF c.len = 0 THEN front
            ELSE IF front # <<>>
                    /\ front[Len(front)].data = c.data
                    /\ front[Len(front)].off + front[Len(front)].len = c.off
            THEN [front EXCEPT ![Len(front)].len = @ + c.len]
            ELSE Append(front, c)

RECURSIVE BodyLen(_)
BodyLen(body) ==
    IF body = <<>> THEN 0 ELSE body[1].len + BodyLen(Tail(body))

\* the ranges of the requests that name both ends, with the ends they name
NamedRanges ==
    {<<ClosedRange(p[1], p[2]), p[1], p[2]>> : p \in ClosedPairs}
      \cup {<<Str(BytesEq \o <<" ", "7", "-", "+", "9">>), 7, 9>>,
            <<Str(<<"4", "0", "-", "6", "0">>), 40, 60>>}

\* C1: a request for the bytes start..end of a file, 0 <= start <= end <
\* file size, is answered with Content-Length end - start + 1 and
\* Content-Range 'bytes start-end/size', and once the body is written out
\* it is exactly the bytes start..end of the file.
C1_RangeBodyExact ==
    \A r \in NamedRanges :
        (Streamable /\ resp.range = r[1]
            /\ 0 <= r[2] /\ r[2] <= r[3] /\ r[3] < TheFile.size)
        => /\ resp.status = 200
           /\ resp.headers.content_length = r[3] - r[2] + 1
           /\ resp.headers.content_range = <<"bytes", r[2], r[3], TheFile.size>>
           /\ gen.state \in {"created", "open", "done"}
           /\ gen.state = "done" =>
                /\ BodyBytes(gen.body) = FileBytes(TheFile, r[2], r[3] - r[2] + 1)
                /\ BodyLen(gen.body) = r[3] - r[2] + 1

\* the span 50 .. 3 MiB + 72 of the 10 MiB track was streamed, in 4 chunks
C1_Witness ==
    /\ Streamable
    /\ resp.range = ClosedRange(50, 3 * CHUNK_SIZE + 72)
    /\ TheFile = Track
    /\ gen.state = "done"
    /\ Len(gen.body) = 4

\* C2: without a range, Content-Length is the size of the file and the body
\* written out is the whole file, in order.
C2_FullBody ==
    (Streamable /\ resp.range = NoRange)
    => /\ resp.status = 200
       /\ resp.headers.content_length = TheFile.size
       /\ gen.state \in {"created", "open", "done"}
       /\ gen.state = "done" =>
            /\ BodyBytes(gen.body) = FileBytes(TheFile, 0, TheFile.size)
            /\ BodyLen(gen.body) = TheFile.size

C2_Witness ==
    /\ Streamable
    /\ resp.range = NoRange
    /\ TheFile = Track
    /\ gen.state = "done"
    /\ Len(gen.body) = 10

\* the range values that name no integer start, or an end that is no integer,
\* or that lack the '-'
MalformedRanges ==
    { Str(BytesEq \o <<"a", "b", "c", "-", "d", "e", "f">>),
      Str(BytesEq \o <<"-", "9", "9">>),
      Str(BytesEq \o <<"0", "-", "x">>),
      Str(BytesEq \o <<"1", "0", "0">>),
      Str(<<"a", "b", "c">>) }

\* C3: a malformed range value, for a song whose row and file exist, is
\* answered with 400 'Invalid range header'.
C3_MalformedIs400 ==
    (Streamable /\ resp.range \in MalformedRanges)
    => resp.status = 400 /\ resp.detail = "Invalid range header"

\* C4: an update_song request never leaves the song it names, whose file
\* existed when the request came in, with a file_path that names no file:
\* the old file goes only once the new one is stored.
C4_ReplaceThenDelete ==
    [][ (resp'.op = "update_song" /\ HasFile(resp'.song_id))
        => /\ songs'[resp'.song_id] # NoSong
           /\ fs'[songs'[resp'.song_id].file_path] # NoFile ]_vars

\* C5: no upload writes to a path another upload wrote to: the file of a
\* song that is not itself being updated or deleted, as long as it is on
\* disk, keeps its bytes.
C5_UniquePaths ==
    [][ \A s \in SongIds :
          ( /\ HasFile(s)
            /\ songs'[s] = songs[s]
            /\ ~(resp'.op = "update_song" /\ resp'.song_id = s)
            /\ fs'[songs[s].file_path] # NoFile )
          => fs'[songs[s].file_path] = fs[songs[s].file_path] ]_vars

\* the first and last offset a range value asks for, of a file of that size
Asked(range, size) ==
    IF range = NoRange \/ range = Str(<<>>) THEN <<0, size - 1>>
    ELSE IF \E r \in NamedRanges : r[1] = range
    THEN LET r == CHOOSE r \in NamedRanges : r[1] = range IN <<r[2], r[3]>>
    ELSE <<CHOOSE a \in OpenStarts : OpenRange(a) = range, size - 1>>

\* C6: every byte of the body comes from an offset of the file that lies
\* within the range asked for.
C6_NothingOutsideRange ==
    (Streamable /\ gen # NoGen)
    => \A i \in 1..Len(gen.body) :
          /\ gen.body[i].len > 0
          /\ gen.body[i].data = TheFile.data
          /\ gen.body[i].off >= Asked(resp.range, TheFile.size)[1]
          /\ gen.body[i].off + gen.body[i].len - 1
                <= Asked(resp.range, TheFile.size)[2]

\* the MiB in the middle of the 10 MiB track was streamed
C6_Witness ==
    /\ Streamable
    /\ resp.range = ClosedRange(5 * CHUNK_SIZE, 6 * CHUNK_SIZE - 1)
    /\ TheFile = Track
    /\ gen.state = "done"
    /\ BodyLen(gen.body) = CHUNK_SIZE

\* C7: bytes=0-99 on a song whose row and backing file exist yields exactly
\* the 100 bytes [0, 100) of the file and Content-Range 'bytes 0-99/size'.
C7_First100 ==
    (Streamable /\ resp.range = ClosedRange(0, 99))
    => /\ resp.status = 200
       /\ resp.headers.content_range = <<"bytes", 0, 99, TheFile.size>>
       /\ gen.state = "done" =>
            /\ BodyLen(gen.body) = 100
            /\ BodyBytes(gen.body) = FileBytes(TheFile, 0, 100)

\* C8: an open-ended range bytes=<start>- takes end = file size - 1 and the
\* body written out is every byte from start to the end of the file.
C8_OpenEnded ==
    \A a \in OpenStarts :
        (Streamable /\ resp.range = OpenRange(a))
        => /\ resp.status = 200
           /\ resp.headers.content_range = <<"bytes", a, TheFile.size - 1, TheFile.size>>
           /\ gen.state = "done" =>
                BodyBytes(gen.body) = FileBytes(TheFile, a, TheFile.size - a)

C8_Witness ==
    /\ Streamable
    /\ resp.range = OpenRange(100)
    /\ TheFile = Track
    /\ gen.state = "done"
    /\ BodyLen(gen.body) = 10 * CHUNK_SIZE - 100

\* C9: stream_song for an id without a row answers 404 'Song not found',
\* whatever the range value, and creates no generator that would open a file.
C9_NoRow404 ==
    (resp.op = "stream_song" /\ ~HasRow(resp.song_id))
    => resp.status = 404 /\ resp.detail = "Song not found" /\ gen = NoGen

\* a malformed range for an id without a row, while another song exists
C9_Witness ==
    /\ resp.op = "stream_song"
    /\ ~HasRow(resp.song_id)
    /\ HasFile(1)
    /\ resp.range = Str(BytesEq \o <<"a", "b", "c", "-", "d", "e", "f">>)
    /\ resp.status = 404

\* C10: stream_song and get_song_info for a song whose row exists and whose
\* file is gone answer 404 'Song file not found', whatever the range value.
C10_NoFile404 ==
    (resp.op \in {"stream_song", "get_song_info"}
        /\ HasRow(resp.song_id) /\ ~HasFile(resp.song_id))
    => /\ resp.status = 404
       /\ resp.detail = "Song file not found"
       /\ resp.op = "stream_song" => gen = NoGen

\* a malformed range for a song whose file is gone
C10_Witness ==
    /\ resp.op = "stream_song"
    /\ HasRow(resp.song_id)
    /\ ~HasFile(resp.song_id)
    /\ resp.range = Str(BytesEq \o <<"0", "-", "x">>)
    /\ resp.status = 404

C12_OnlyValidatedFiles ==
    (resp.op \in {"create_song", "update_song"}
        /\ resp.status = 200 /\ resp.probe # NoProbe)
    => validate_audio_file(fs, songs[resp.song_id].file_path)

Span(i) ==
    LET size == fs[streams[i].gen.file_path].size
        asked == Asked(streams[i].resp.range, size)
    IN <<asked[1], Min(asked[2], size - 1)>>

\* C14: with several stream_song responses being written out in any
\* interleaving, what each has received so far is the beginning of the byte
\* span of its own range, and all of it once its generator is done.
C14_IndependentStreams ==
    \A i \in StreamSlots :
        streams[i].gen # NoGen =>
            LET g == streams[i].gen
                file == fs[g.file_path]
            IN /\ g.state \in {"created", "open", "done"}
               /\ BodyBytes(g.body)
                     = FileBytes(file, Span(i)[1], BodyLen(g.body))
               /\ g.state = "done"
                     => BodyLen(g.body) = Span(i)[2] - Span(i)[1] + 1

\* two streams of song 1: the second has had the first of its two chunks
\* while the first, asked for another range, has run to its end
C14_Witness ==
    /\ streams[1].resp.op = "stream_song"
    /\ streams[2].resp.op = "stream_song"
    /\ streams[1].resp.song_id = 1
    /\ streams[2].resp.song_id = 1
    /\ streams[1].resp.range = OpenRange(100)
    /\ streams[2].resp.range = NoRange
    /\ streams[1].gen.state = "done"
    /\ BodyLen(streams[1].gen.body) = CHUNK_SIZE + 1 - 100
    /\ streams[2].gen.state = "open"
    /\ Len(streams[2].gen.body) = 1

AlbumChanges ==
    {"update_album", "delete_album", "add_song_to_album",
     "remove_song_from_album"}

\* C15: an album-modifying request by a user who is not the creator of the
\* album it names is answered 403 and changes neither the albums nor the
\* songs, also when the song it names does not exist.
C15_NonOwner403 ==
    [][ (resp'.op \in AlbumChanges
           /\ AlbumById(albums, resp'.album_id) # NoAlbum
           /\ albums[resp'.album_id].creator_id # resp'.user_id)
        => /\ resp'.status = 403
           /\ albums' = albums
           /\ songs' = songs ]_vars

\* the other artist asks to add a song that does not exist to album 1
C15_Witness ==
    /\ resp.op = "add_song_to_album"
    /\ resp.album_id = 1
    /\ albums[1] # NoAlbum
    /\ albums[1].creator_id = 1
    /\ resp.user_id = 3
    /\ SongById(songs, resp.song_id) = NoSong
    /\ resp.status = 403

PlaylistRequests ==
    {"get_playlist", "update_playlist", "delete_playlist",
     "add_song_to_playlist", "remove_song_from_playlist"}

C17_LikeTwiceRefused ==
    [][ /\ (resp'.op = "like_song" /\ HasRow(resp'.id)
              /\ in_liked_songs(liked_songs, resp'.id, resp'.user_id))
           => /\ resp'.status = 400
              /\ resp'.detail = "Song already liked"
              /\ liked_songs' = liked_songs
              /\ songs' = songs
        /\ (resp'.op = "unlike_song" /\ HasRow(resp'.id)
              /\ ~in_liked_songs(liked_songs, resp'.id, resp'.user_id))
           => /\ resp'.status = 400
              /\ resp'.detail = "Song not liked"
              /\ liked_songs' = liked_songs
              /\ songs' = songs ]_vars

\* user 2 asks a second time to like a song that two users like
C17_Witness ==
    /\ resp.op = "like_song"
    /\ resp.user_id = 2
    /\ HasRow(resp.id)
    /\ in_liked_songs(liked_songs, resp.id, 2)
    /\ songs[resp.id].like_count = 2
    /\ resp.status = 400

\* C18: for every user and every existing song the user does not like,
\* like_song succeeds and is-liked then reports true, a following
\* unlike_song succeeds and is-liked then reports false, and the liked set
\* and the songs table, like_count included, are what they were before the
\* like.
C18_LikeUnlikeRoundTrip ==
    \A u \in Members, s \in SongIds :
        (HasRow(s) /\ ~in_liked_songs(liked_songs, s, u)) =>
            LET liked == like_song(songs, liked_songs, s, u)
                unliked == unlike_song(liked.songs, liked.liked_songs, s, u)
            IN /\ liked.status = 200
               /\ check_if_song_liked(liked.songs, liked.liked_songs,
                                      s, u).is_liked
               /\ liked.songs[s].like_count = songs[s].like_count + 1
               /\ unliked.status = 200
               /\ ~check_if_song_liked(unliked.songs, unliked.liked_songs,
                                       s, u).is_liked
               /\ unliked.liked_songs = liked_songs
               /\ unliked.songs = songs

\* user 3 liked and then unliked a song that another user still likes
C18_Witness ==
    /\ resp.op = "unlike_song"
    /\ resp.status = 200
    /\ resp.user_id = 3
    /\ HasRow(resp.id)
    /\ ~in_liked_songs(liked_songs, resp.id, 3)
    /\ in_liked_songs(liked_songs, resp.id, 2)
    /\ songs[resp.id].like_count = 1

\* C19: no like_count is ever below zero; an unlike_song that succeeds and
\* an unlike_album of an existing album leave the stored count one lower,
\* or at 0 when it was 0.
C19_CountNeverNegative ==
    [][ /\ \A s \in SongIds :
              songs'[s] # NoSong => songs'[s].like_count >= 0
        /\ (resp'.op = "unlike_song" /\ resp'.status = 200)
           => songs'[resp'.id].like_count
                 = Max(0, songs[resp'.id].like_count - 1)
        /\ (resp'.op = "unlike_album"
              /\ AlbumById(albums, resp'.id) # NoAlbum)
           => /\ resp'.status \in {200, 400}
              /\ resp'.status = 200 =>
                    /\ "like_count" \in DOMAIN albums'[resp'.id]
                    /\ albums'[resp'.id].like_count >= 0 ]_vars

\* C20: follow_user naming the caller's own id answers 400 'Cannot follow
\* yourself' and leaves the follow relation unchanged, and no user is ever
\* in their own following or followers list.
C20_NoSelfFollow ==
    [][ /\ (resp'.op = "follow_user" /\ resp'.target_id = resp'.user_id)
           => /\ resp'.status = 400
              /\ resp'.detail = "Cannot follow yourself"
              /\ following' = following
        /\ \A u \in Members : <<u, u>> \notin following' ]_vars

\* user 2, who follows and is followed, asks to follow user 2
C20_Witness ==
    /\ resp.op = "follow_user"
    /\ resp.user_id = 2
    /\ resp.target_id = 2
    /\ resp.status = 400
    /\ <<2, 1>> \in following
    /\ <<3, 2>> \in following

\* C21: whenever the file create_song has just saved is one that
\* validate_audio_file rejects, create_song answers 400 'Invalid audio file
\* format', the saved file is no longer on disk, and the songs table is as it
\* was.
C21_RejectedUploadRemoved ==
    \A file \in ProbedUploads \cup CreateUploads :
        LET sv == save_upload_file(fs, file, now)
            r == create_song(1, file, NoUpload, None)
        IN (/\ startswith(file.content_type, "audio/")
            /\ file.size <= MAX_AUDIO_SIZE
            /\ sv.status = 200
            /\ ~validate_audio_file(sv.disk, sv.file_path))
           => /\ r.status = 400
              /\ r.detail = "Invalid audio file format"
              /\ ~exists(r.disk, sv.file_path)
              /\ r.songs = songs

\* a 50-byte upload was refused while song 1 exists, and nothing is stored
\* under the refused upload's path
C21_Witness ==
    /\ resp.op = "create_song"
    /\ resp.status = 400
    /\ resp.detail = "Invalid audio file format"
    /\ resp.probe.outcome = Completed(0, JDuration(JStr(Seconds183)))
    /\ songs[1] # NoSong
    /\ songs[2] = NoSong
    /\ ~exists(fs, UploadPath(now, [base |-> "a", ext |-> ".mp3"]))

\* C22: no two users ever have the same username or the same email;
\* update_current_user naming a username or an email that another user has
\* answers 400 and leaves the users table as it was; naming the caller's own
\* current username and email succeeds.
C22_UniqueNames ==
    [][ /\ \A u \in Members, v \in Members :
              (u # v) => /\ users'[u].username # users'[v].username
                         /\ users'[u].email # users'[v].email
        /\ (resp'.op = "update_current_user"
              /\ \E v \in Members \ {resp'.user_id} :
                    \/ users[v].username = resp'.username
                    \/ users[v].email = resp'.email)
           => /\ resp'.status = 400
              /\ users' = users
        /\ (resp'.op = "update_current_user"
              /\ users[resp'.user_id].username = resp'.username
              /\ users[resp'.user_id].email = resp'.email)
           => resp'.status = 200 ]_vars

\* user 1, who has taken the free username, asks for a free email with the
\* username user 2 now has, and is refused for the username
C22_Witness ==
    /\ resp.op = "update_current_user"
    /\ resp.user_id = 1
    /\ resp.username = users[2].username
    /\ users[2].username = "ann"
    /\ users[1].username = "dan"
    /\ resp.email \notin {users[v].email : v \in Members}
    /\ resp.status = 400
    /\ resp.detail = "Username already taken"

Asking == resp' = resp /\ gen.state \in {"created", "open"} /\ gen' # gen

\* C24: the chunk sequence of stream_file is finite.  Asked for its next
\* chunk, the generator ends without a chunk when its cursor is at or past
\* end + 1 or at or past the end of the file, and otherwise yields one chunk
\* and moves the cursor forward, to no further than end + 1 and the end of
\* the file; and every generator that was created comes to its end.
C24_StreamEnds ==
    /\ [][ Asking =>
             LET size == fs[gen.file_path].size
             IN IF gen.start >= gen.end \/ gen.start >= size
                THEN /\ gen'.state = "done"
                     /\ gen'.body = gen.body
                ELSE /\ gen'.state = "open"
                     /\ Len(gen'.body) = Len(gen.body) + 1
                     /\ gen'.start > gen.start
                     /\ gen'.start <= gen.end
                     /\ gen'.start <= size ]_vars
    /\ (gen.state = "created") ~> (gen.state = "done")

\* bytes 99-50 of the 10 MiB track were asked for: the generator ended
\* without a chunk
C24_Witness ==
    /\ Streamable
    /\ resp.range = ClosedRange(99, 50)
    /\ TheFile = Track
    /\ gen.state = "done"
    /\ gen.body = <<>>

\* C25: every chunk stream_file yields holds at least one byte and at most
\* CHUNK_SIZE bytes, each chunk starts where the one before it ended, and one
\* request for the next chunk reads no more than one chunk, whatever the
\* size of the file and the length of the span asked for.
C25_OneChunkAtATime ==
    [][ /\ gen'.state \in {"open", "done"} =>
              \A i \in 1..Len(gen'.body) :
                  /\ gen'.body[i].len >= 1
                  /\ gen'.body[i].len <= CHUNK_SIZE
                  /\ gen'.body[i].data = gen'.file.data
                  /\ i > 1 => gen'.body[i].off
                                = gen'.body[i - 1].off + gen'.body[i - 1].len
        /\ Asking => /\ Len(gen'.body) <= Len(gen.body) + 1
                     /\ SubSeq(gen'.body, 1, Len(gen.body)) = gen.body ]_vars

\* the whole 10 MiB track was written out, in ten chunks of 1 MiB
C25_Witness ==
    /\ Streamable
    /\ resp.range = NoRange
    /\ TheFile = Track
    /\ gen.state = "done"
    /\ Len(gen.body) = 10
    /\ \A i \in 1..10 : gen.body[i].len = CHUNK_SIZE

\* C26: the generator of a stream_song response that was returned with its
\* headers finds the file when it opens it, also when a delete_song or an
\* update_song for the song was served in between.
C26_OpenFindsFile ==
    \A i \in StreamSlots : streams[i].gen.state # "error"

\* C27: whenever no like or unlike request is in flight, the like_count of
\* every song is the number of users who like it.
C27_CountIsLikers ==
    (\A u \in Members : sessions[u] = NoSession)
    => \A s \in SongIds :
          songs[s] # NoSong
          => songs[s].like_count
                = Cardinality({l \in liked_songs : l[2] = s})

\* C28: a create_song request that fails leaves the disk as it was: neither
\* the uploaded audio file nor the cover saved earlier in the request
\* remains, and no song row is created.
C28_FailedCreateLeavesNothing ==
    [][ (resp'.op = "create_song" /\ resp'.status # 200)
        => /\ fs' = fs
           /\ covers' = covers
           /\ songs' = songs ]_vars

\* C29: every song that belongs to an album references an existing album
\* created by the song's own creator.
C29_AlbumOfOwnCreator ==
    \A s \in SongIds :
        (songs[s] # NoSong /\ songs[s].album_id # None)
        => /\ songs[s].album_id \in AlbumIds
           /\ albums[songs[s].album_id] # NoAlbum
           /\ albums[songs[s].album_id].creator_id = songs[s].creator_id

\* C30: the Content-Length header of a stream_song response is never
\* negative, whatever the range and the size of the file.
C30_LengthNotNegative ==
    (resp.op = "stream_song" /\ resp.headers # NoHeaders)
    => resp.headers.content_length >= 0

====
